---- MODULE Spec2Model ----
(***************************************************************************)
(* A model of the aws-sage command pipeline: operation classifier,         *)
(* denylist, safety enforcer, intent classifier and execution engine.      *)
(* Strings are TLA+ strings; Python's str methods are modelled character   *)
(* by character with SubSeq, so that case folding, prefix tests and        *)
(* substring tests are computed, not assumed.                              *)
(***************************************************************************)
EXTENDS Integers, Sequences, FiniteSets, TLC

(***************************************************************************)
(* config.py: the enums.  A member is modelled by its value string.        *)
(***************************************************************************)
READ_ONLY == "read_only"
STANDARD == "standard"
UNRESTRICTED == "unrestricted"
SafetyMode == {READ_ONLY, STANDARD, UNRESTRICTED}

READ == "read"
WRITE == "write"
DESTRUCTIVE == "destructive"
BLOCKED == "blocked"
OperationCategory == {READ, WRITE, DESTRUCTIVE, BLOCKED}

\* Python's None.
None == "None"

(***************************************************************************)
(* Python str operations.                                                  *)
(***************************************************************************)
ascii_uppercase == "ABCDEFGHIJKLMNOPQRSTUVWXYZ"
ascii_lowercase == "abcdefghijklmnopqrstuvwxyz"

\* The i-th character of s, as a one-character string.
CharAt(s, i) == SubSeq(s, i, i)

\* The case mapping of the ASCII letters.
upper_index(c) == CHOOSE i \in 1..Len(ascii_uppercase) : CharAt(ascii_uppercase, i) = c
lower_index(c) == CHOOSE i \in 1..Len(ascii_lowercase) : CharAt(ascii_lowercase, i) = c
is_upper(c) == \E i \in 1..Len(ascii_uppercase) : CharAt(ascii_uppercase, i) = c
is_lower(c) == \E i \in 1..Len(ascii_lowercase) : CharAt(ascii_lowercase, i) = c

CharLower(c) == IF is_upper(c) THEN CharAt(ascii_lowercase, upper_index(c)) ELSE c
CharUpper(c) == IF is_lower(c) THEN CharAt(ascii_uppercase, lower_index(c)) ELSE c

\* str.lower()
RECURSIVE lower(_)
lower(s) ==
    IF s = "" THEN "" ELSE CharLower(CharAt(s, 1)) \o lower(SubSeq(s, 2, Len(s)))

\* str.upper()
RECURSIVE upper(_)
upper(s) ==
    IF s = "" THEN "" ELSE CharUpper(CharAt(s, 1)) \o upper(SubSeq(s, 2, Len(s)))

\* str.capitalize(): first character upper-cased, the rest lower-cased.
capitalize(s) ==
    IF s = "" THEN "" ELSE CharUpper(CharAt(s, 1)) \o lower(SubSeq(s, 2, Len(s)))

\* str.startswith(prefix)
startswith(s, prefix) ==
    /\ Len(prefix) <= Len(s)
    /\ SubSeq(s, 1, Len(prefix)) = prefix

\* Python's `sub in s` on strings.
contains(s, sub) ==
    \E i \in 1..(Len(s) - Len(sub) + 1) : SubSeq(s, i, i + Len(sub) - 1) = sub

\* str.find(sub) + 1: the first position of sub in s, or 0.
find(s, sub) ==
    IF contains(s, sub)
    THEN CHOOSE i \in 1..(Len(s) - Len(sub) + 1) :
            /\ SubSeq(s, i, i + Len(sub) - 1) = sub
            /\ \A j \in 1..(i - 1) : SubSeq(s, j, j + Len(sub) - 1) # sub
    ELSE 0

(***************************************************************************)
(* safety/classifier.py: OperationClassifier.                              *)
(***************************************************************************)
READ_PREFIXES ==
  <<
    "list", "describe", "get", "batch_get", "scan", "query", "head", "check",
    "lookup", "search", "filter", "poll"
  >>

WRITE_PREFIXES ==
  <<
    "create", "put", "update", "modify", "set", "tag", "untag", "enable",
    "disable", "start", "stop", "attach", "detach", "associate",
    "disassociate", "register", "add", "import", "copy", "restore", "reboot",
    "reset", "renew"
  >>

DESTRUCTIVE_PREFIXES ==
  <<
    "delete", "terminate", "destroy", "remove", "deregister", "revoke",
    "cancel", "purge", "release", "deprecate"
  >>

OPERATION_OVERRIDES ==
    <<"logs", "put_log_events">> :> WRITE
    @@ <<"kinesis", "put_record">> :> WRITE
    @@ <<"kinesis", "put_records">> :> WRITE
    @@ <<"firehose", "put_record">> :> WRITE
    @@ <<"firehose", "put_record_batch">> :> WRITE
    @@ <<"logs", "filter_log_events">> :> READ
    @@ <<"logs", "get_log_events">> :> READ
    @@ <<"cloudwatch", "get_metric_data">> :> READ
    @@ <<"cloudwatch", "get_metric_statistics">> :> READ
    @@ <<"ec2", "terminate_instances">> :> DESTRUCTIVE
    @@ <<"autoscaling", "terminate_instance_in_auto_scaling_group">> :> DESTRUCTIVE
    @@ <<"ecs", "deregister_container_instance">> :> DESTRUCTIVE
    @@ <<"ecs", "deregister_task_definition">> :> DESTRUCTIVE
    @@ <<"lambda", "delete_function">> :> DESTRUCTIVE
    @@ <<"s3", "delete_object">> :> DESTRUCTIVE
    @@ <<"s3", "delete_objects">> :> DESTRUCTIVE
    @@ <<"s3", "delete_bucket">> :> DESTRUCTIVE
    @@ <<"dynamodb", "delete_table">> :> DESTRUCTIVE
    @@ <<"dynamodb", "delete_item">> :> DESTRUCTIVE
    @@ <<"rds", "delete_db_instance">> :> DESTRUCTIVE
    @@ <<"rds", "delete_db_cluster">> :> DESTRUCTIVE

DRY_RUN_SUPPORTED ==
  ("ec2" :>
  {
    "run_instances", "start_instances", "stop_instances",
    "terminate_instances", "create_security_group", "delete_security_group",
    "authorize_security_group_ingress", "authorize_security_group_egress",
    "revoke_security_group_ingress", "revoke_security_group_egress",
    "create_vpc", "delete_vpc", "create_subnet", "delete_subnet",
    "create_internet_gateway", "delete_internet_gateway",
    "attach_internet_gateway", "detach_internet_gateway",
    "create_nat_gateway", "delete_nat_gateway", "create_route_table",
    "delete_route_table", "create_route", "delete_route", "create_volume",
    "delete_volume", "attach_volume", "detach_volume", "create_snapshot",
    "delete_snapshot", "create_image", "deregister_image", "create_key_pair",
    "delete_key_pair", "import_key_pair", "create_launch_template",
    "delete_launch_template", "modify_instance_attribute", "modify_volume"
  })

\* Mutant of matches_prefix: the operation name must equal a prefix.
matches_prefix_whole_name(prefixes, operation_lower) ==
    \E i \in 1..Len(prefixes) : operation_lower = prefixes[i]

\* Whether operation_lower starts with one of the prefixes of the tuple.
matches_prefix(prefixes, operation_lower) ==
    \E i \in 1..Len(prefixes) : startswith(operation_lower, prefixes[i])

\* Mutant of classify: the inputs are not lower-cased.
classify_case_sensitive(service, operation) ==
    LET key == <<service, operation>>
    IN  IF key \in DOMAIN OPERATION_OVERRIDES THEN OPERATION_OVERRIDES[key]
        ELSE IF matches_prefix(DESTRUCTIVE_PREFIXES, operation) THEN DESTRUCTIVE
        ELSE IF matches_prefix(WRITE_PREFIXES, operation) THEN WRITE
        ELSE IF matches_prefix(READ_PREFIXES, operation) THEN READ
        ELSE WRITE

\* Mutant of classify: an operation no prefix matches is taken to be a read.
classify_default_read(service, operation) ==
    LET service_lower == lower(service)
        operation_lower == lower(operation)
        key == <<service_lower, operation_lower>>
    IN  IF key \in DOMAIN OPERATION_OVERRIDES THEN OPERATION_OVERRIDES[key]
        ELSE IF matches_prefix(DESTRUCTIVE_PREFIXES, operation_lower) THEN DESTRUCTIVE
        ELSE IF matches_prefix(WRITE_PREFIXES, operation_lower) THEN WRITE
        ELSE READ

\* OperationClassifier.classify
classify(service, operation) ==
    LET service_lower == lower(service)
        operation_lower == lower(operation)
        key == <<service_lower, operation_lower>>
    IN  IF key \in DOMAIN OPERATION_OVERRIDES THEN OPERATION_OVERRIDES[key]
        ELSE IF matches_prefix(DESTRUCTIVE_PREFIXES, operation_lower) THEN DESTRUCTIVE
        ELSE IF matches_prefix(WRITE_PREFIXES, operation_lower) THEN WRITE
        ELSE IF matches_prefix(READ_PREFIXES, operation_lower) THEN READ
        ELSE WRITE

\* OperationClassifier.supports_dry_run
supports_dry_run(service, operation) ==
    LET service_lower == lower(service)
        operation_lower == lower(operation)
    IN  /\ service_lower \in DOMAIN DRY_RUN_SUPPORTED
        /\ operation_lower \in DRY_RUN_SUPPORTED[service_lower]

(***************************************************************************)
(* safety/denylist.py.                                                     *)
(***************************************************************************)
DENYLIST ==
  {
    "iam.delete_account_alias", "iam.delete_account_password_policy",
    "iam.update_account_password_policy", "iam.create_account_alias",
    "iam.delete_service_linked_role", "iam.delete_saml_provider",
    "iam.delete_open_id_connect_provider", "iam.generate_credential_report",
    "organizations.leave_organization", "organizations.delete_organization",
    "organizations.remove_account_from_organization",
    "organizations.close_account",
    "organizations.delete_organizational_unit", "cloudtrail.delete_trail",
    "cloudtrail.stop_logging", "cloudtrail.update_trail",
    "cloudtrail.delete_event_data_store", "guardduty.delete_detector",
    "guardduty.disable_organization_admin_account",
    "guardduty.disassociate_from_administrator_account",
    "guardduty.disassociate_members", "guardduty.delete_members",
    "config.delete_configuration_recorder",
    "config.stop_configuration_recorder", "config.delete_delivery_channel",
    "securityhub.disable_security_hub", "securityhub.delete_insight",
    "securityhub.disable_import_findings_for_product",
    "kms.schedule_key_deletion", "kms.disable_key", "kms.delete_alias",
    "kms.delete_imported_key_material",
    "s3control.delete_public_access_block",
    "s3control.put_public_access_block", "s3.delete_bucket_policy",
    "s3.put_bucket_policy", "s3.put_bucket_acl",
    "s3.delete_bucket_encryption", "s3.put_public_access_block",
    "s3.delete_public_access_block", "ec2.delete_flow_logs",
    "ec2.delete_default_vpc", "ec2.delete_default_subnet",
    "rds.delete_db_cluster_snapshot", "rds.delete_db_snapshot",
    "rds.delete_db_instance_automated_backup", "rds.modify_db_cluster",
    "backup.delete_backup_vault", "backup.delete_backup_plan",
    "backup.delete_recovery_point", "route53.delete_hosted_zone",
    "route53domains.delete_domain",
    "route53domains.transfer_domain_to_another_aws_account",
    "acm.delete_certificate", "secretsmanager.delete_secret",
    "ce.delete_cost_category_definition", "budgets.delete_budget",
    "cur.delete_report_definition",
    "service-quotas.delete_service_quota_increase_request_from_template",
    "sso-admin.delete_instance", "sso-admin.delete_permission_set",
    "identitystore.delete_user", "identitystore.delete_group",
    "ram.delete_resource_share", "ram.disassociate_resource_share",
    "servicecatalog.delete_portfolio", "servicecatalog.delete_product",
    "controltower.disable_control", "controltower.delete_landing_zone"
  }

DOUBLE_CONFIRM_OPERATIONS ==
  {
    "ec2.terminate_instances", "rds.delete_db_instance",
    "rds.delete_db_cluster", "dynamodb.delete_table", "s3.delete_bucket",
    "lambda.delete_function", "ecs.delete_cluster", "eks.delete_cluster",
    "cloudformation.delete_stack", "elasticbeanstalk.terminate_environment"
  }

WARN_OPERATIONS ==
  {
    "iam.attach_role_policy", "iam.attach_user_policy",
    "iam.put_role_policy", "iam.put_user_policy", "iam.create_access_key",
    "ec2.authorize_security_group_ingress",
    "ec2.authorize_security_group_egress", "s3.put_bucket_versioning",
    "rds.modify_db_instance", "lambda.update_function_configuration"
  }

\* The f-string f"{service.lower()}.{operation.lower()}".
operation_key(service, operation) == lower(service) \o "." \o lower(operation)

\* Mutant of is_operation_blocked: a key blocks every key it starts with.
is_operation_blocked_by_prefix(service, operation) ==
    \E k \in DENYLIST : startswith(k, operation_key(service, operation))

is_operation_blocked(service, operation) ==
    operation_key(service, operation) \in DENYLIST

requires_double_confirmation(service, operation) ==
    operation_key(service, operation) \in DOUBLE_CONFIRM_OPERATIONS

should_warn(service, operation) ==
    operation_key(service, operation) \in WARN_OPERATIONS

get_block_reason(service, operation) ==
    LET key == operation_key(service, operation)
    IN  IF key \notin DENYLIST THEN None
        ELSE IF \/ contains(key, "cloudtrail") \/ contains(key, "guardduty")
                \/ contains(key, "config") \/ contains(key, "securityhub")
        THEN "This operation could disable security monitoring or audit logging"
        ELSE IF /\ contains(key, "iam")
                /\ \/ contains(key, "account") \/ contains(key, "saml")
                   \/ contains(key, "oidc")
        THEN "This operation could affect account-level identity configuration"
        ELSE IF contains(key, "organizations")
        THEN "This operation could affect your AWS Organization structure"
        ELSE IF contains(key, "kms")
        THEN "This operation could permanently destroy encryption keys"
        ELSE IF contains(key, "backup") \/ contains(key, "snapshot")
        THEN "This operation could destroy backup data"
        ELSE IF /\ contains(key, "s3")
                /\ \/ contains(key, "policy") \/ contains(key, "acl")
                   \/ contains(key, "public")
        THEN "This operation could change S3 bucket security settings"
        ELSE IF contains(key, "route53") \/ contains(key, "domain")
        THEN "This operation could affect DNS configuration"
        ELSE "This operation is blocked for security reasons"

(***************************************************************************)
(* Python values that occur as parameter values.  A value is tagged with   *)
(* its Python type; a parameter map (dict[str, Any]) is a function from    *)
(* parameter names to values.                                              *)
(***************************************************************************)
PyList(items) == [t |-> "list", v |-> items]
PyStr(s) == [t |-> "str", v |-> s]
PyInt(n) == [t |-> "int", v |-> n]
PyDict(d) == [t |-> "dict", v |-> d]

\* The exception a call ends with instead of returning.
TypeError == "TypeError"

\* Whether len(x) is defined: lists, strings and dicts have a length; for an
\* int len() raises TypeError.
sized(x) == x.t \in {"list", "str", "dict"}

\* len(x) of a sized value.
len(x) ==
    CASE x.t = "list" -> Len(x.v)
      [] x.t = "str" -> Len(x.v)
      [] x.t = "dict" -> Cardinality(DOMAIN x.v)

\* max(a, b) on ints.
max(a, b) == IF b > a THEN b ELSE a

(***************************************************************************)
(* config.py: SafetyConfig defaults (mode is the variable `mode`).         *)
(***************************************************************************)
require_confirmation_for == {WRITE, DESTRUCTIVE}
dry_run_when_available == TRUE
max_resources_per_operation == 50

(***************************************************************************)
(* safety/validator.py: SafetyDecision and SafetyEnforcer.                 *)
(***************************************************************************)
\* SafetyDecision(allowed, category) with the dataclass defaults.
SafetyDecision(allowed, category) ==
    [allowed |-> allowed,
     category |-> category,
     reason |-> "",
     requires_confirmation |-> FALSE,
     requires_double_confirmation |-> FALSE,
     can_dry_run |-> FALSE,
     warning |-> None,
     suggested_mode |-> None,
     affected_resources |-> 0]

\* What evaluate() yields when it raises instead of returning a decision.
Raised(exc) == [raised |-> exc]
IsDecision(d) == "allowed" \in DOMAIN d

\* Mutant of _get_allowed_categories: READ_ONLY also admits writes.
_get_allowed_categories_writes_in_read_only(m) ==
    IF m = READ_ONLY THEN {READ, WRITE}
    ELSE {READ, WRITE, DESTRUCTIVE}

_get_allowed_categories(m) ==
    IF m = READ_ONLY THEN {READ}
    ELSE IF m = STANDARD THEN {READ, WRITE, DESTRUCTIVE}
    ELSE IF m = UNRESTRICTED THEN {READ, WRITE, DESTRUCTIVE}
    ELSE {READ}

_suggest_mode_for_category(category) ==
    IF category \in {WRITE, DESTRUCTIVE} THEN STANDARD ELSE READ_ONLY

\* One `if name in parameters: count = max(count, len(parameters[name]))`.
count_step(count, parameters, name) ==
    IF name \in DOMAIN parameters /\ sized(parameters[name])
    THEN max(count, len(parameters[name]))
    ELSE count

\* Whether that step raises TypeError (len() of an unsized value).
count_step_raises(parameters, name) ==
    name \in DOMAIN parameters /\ ~sized(parameters[name])

\* The condition "Delete" in parameters and "Objects" in parameters["Delete"]
\* of the S3 step, where it evaluates without raising.
has_delete_objects(parameters) ==
    /\ "Delete" \in DOMAIN parameters
    /\ LET d == parameters["Delete"]
       IN  CASE d.t = "dict" -> "Objects" \in DOMAIN d.v
             [] d.t = "str" -> contains(d.v, "Objects")
             [] d.t = "list" -> \E i \in 1..Len(d.v) : d.v[i] = PyStr("Objects")
             [] OTHER -> FALSE

\* Whether the S3 step raises TypeError: `in` on an int, indexing a str or a
\* list with "Objects", or len() of an unsized Objects value.
count_delete_raises(parameters) ==
    /\ "Delete" \in DOMAIN parameters
    /\ LET d == parameters["Delete"]
       IN  CASE d.t = "dict" ->
                    "Objects" \in DOMAIN d.v /\ ~sized(d.v["Objects"])
             [] d.t \in {"str", "list"} -> has_delete_objects(parameters)
             [] OTHER -> TRUE

count_delete_objects(count, parameters) ==
    IF has_delete_objects(parameters) /\ ~count_delete_raises(parameters)
    THEN max(count, len(parameters["Delete"].v["Objects"]))
    ELSE count

\* Whether SafetyEnforcer._count_affected_resources raises TypeError.
count_raises(parameters) ==
    \/ count_step_raises(parameters, "InstanceIds")
    \/ count_step_raises(parameters, "ResourceIds")
    \/ count_step_raises(parameters, "ResourceArns")
    \/ count_delete_raises(parameters)
    \/ count_step_raises(parameters, "FunctionNames")

\* Mutant of _count_affected_resources: only InstanceIds is counted.
_count_affected_resources_instances_only(parameters) ==
    count_step(1, parameters, "InstanceIds")

\* Mutant of _count_affected_resources: the count starts from 0.
_count_affected_resources_from_zero(parameters) ==
    LET c1 == count_step(0, parameters, "InstanceIds")
        c2 == count_step(c1, parameters, "ResourceIds")
        c3 == count_step(c2, parameters, "ResourceArns")
        c4 == count_delete_objects(c3, parameters)
    IN  count_step(c4, parameters, "FunctionNames")

\* SafetyEnforcer._count_affected_resources, where it returns.
_count_affected_resources(parameters) ==
    LET c1 == count_step(1, parameters, "InstanceIds")
        c2 == count_step(c1, parameters, "ResourceIds")
        c3 == count_step(c2, parameters, "ResourceArns")
        c4 == count_delete_objects(c3, parameters)
    IN  count_step(c4, parameters, "FunctionNames")

\* Mutant of blocked_decision: the reason is left at its default.
blocked_decision_without_reason(service, operation) ==
    SafetyDecision(FALSE, BLOCKED)

\* The denylist branch of evaluate (step 1).
blocked_decision(service, operation) ==
    LET reason == get_block_reason(service, operation)
    IN  [SafetyDecision(FALSE, BLOCKED) EXCEPT
           !.reason = IF reason # None /\ reason # "" THEN reason
                      ELSE "Operation '" \o service \o "." \o operation
                           \o "' is blocked for security reasons"]

\* The mode branch of evaluate (step 3), for a category the mode excludes.
mode_denied_decision(m, operation, category) ==
    [SafetyDecision(FALSE, category) EXCEPT
       !.reason = "Operation '" \o operation \o "' (" \o category
                  \o ") is not allowed in " \o m \o " mode",
       !.suggested_mode = _suggest_mode_for_category(category)]

\* Steps 4 to 7 of evaluate, and the final decision.
counted_decision(service, operation, parameters, category) ==
    LET requires_confirmation == category \in require_confirmation_for
        double_confirm == requires_double_confirmation(service, operation)
        can_dry_run == dry_run_when_available /\ supports_dry_run(service, operation)
        warning == IF should_warn(service, operation)
                   THEN "Operation '" \o operation
                        \o "' can have significant security implications"
                   ELSE None
        affected_count == _count_affected_resources(parameters)
    IN  IF count_raises(parameters) THEN Raised(TypeError)
        ELSE IF affected_count > max_resources_per_operation
        THEN [SafetyDecision(FALSE, category) EXCEPT
                !.reason = "Operation would affect " \o ToString(affected_count)
                           \o " resources, exceeding limit of "
                           \o ToString(max_resources_per_operation),
                !.affected_resources = affected_count]
        ELSE [SafetyDecision(TRUE, category) EXCEPT
                !.requires_confirmation = requires_confirmation,
                !.requires_double_confirmation = double_confirm,
                !.can_dry_run = can_dry_run,
                !.warning = warning,
                !.affected_resources = affected_count]

\* Mutant of evaluate: UNRESTRICTED mode skips the denylist.
evaluate_unrestricted_skips_denylist(m, service, operation, parameters) ==
    IF m # UNRESTRICTED /\ is_operation_blocked(service, operation)
    THEN blocked_decision(service, operation)
    ELSE LET category == classify(service, operation)
         IN  IF category \notin _get_allowed_categories(m)
             THEN mode_denied_decision(m, operation, category)
             ELSE counted_decision(service, operation, parameters, category)

\* Mutant of evaluate: the blast radius is checked before the mode.
evaluate_counts_before_mode(m, service, operation, parameters) ==
    IF is_operation_blocked(service, operation)
    THEN blocked_decision(service, operation)
    ELSE LET category == classify(service, operation)
             counted == counted_decision(service, operation, parameters, category)
         IN  IF IsDecision(counted) /\ ~counted.allowed THEN counted
             ELSE IF category \notin _get_allowed_categories(m)
             THEN mode_denied_decision(m, operation, category)
             ELSE counted

\* SafetyEnforcer.evaluate, with m the value read from self.config.mode.
evaluate(m, service, operation, parameters) ==
    IF is_operation_blocked(service, operation)
    THEN blocked_decision(service, operation)
    ELSE LET category == classify(service, operation)
         IN  IF category \notin _get_allowed_categories(m)
             THEN mode_denied_decision(m, operation, category)
             ELSE counted_decision(service, operation, parameters, category)

(***************************************************************************)
(* parser/intent.py: the natural-language intent classifier.  Queries are  *)
(* words separated by single spaces, so the regular expression \s+ matches *)
(* exactly one space.                                                      *)
(***************************************************************************)
\* str.strip() on spaces.
RECURSIVE lstrip(_)
lstrip(s) ==
    IF s # "" /\ CharAt(s, 1) = " " THEN lstrip(SubSeq(s, 2, Len(s))) ELSE s

RECURSIVE rstrip(_)
rstrip(s) ==
    IF s # "" /\ CharAt(s, Len(s)) = " " THEN rstrip(SubSeq(s, 1, Len(s) - 1)) ELSE s

strip(s) == rstrip(lstrip(s))

\* A compiled pattern as <<head, tail>>: the anchored literal the match starts
\* with (optional groups before the capture match the empty string), and the
\* literal that must follow the non-empty capture ("" if none).
\*   ^list\s+(?:all\s+)?(.+)                  is <<"list ", "">>
\*   ^what\s+(.+)\s+(?:do\s+)?(?:i\s+)?have   is <<"what ", " have">>
INTENT_PATTERNS == <<
  [intent_type |-> "list",
   patterns |-> << <<"list ", "">>, <<"show ", "">>, <<"get ", "">>,
                   <<"what ", " have">>, <<"display ", "">>, <<"find ", "">> >>,
   category |-> READ, operation_prefix |-> "list"],
  [intent_type |-> "describe",
   patterns |-> << <<"describe ", "">>, <<"tell me about ", "">>,
                   <<"details of ", "">>, <<"details for ", "">>, <<"details about ", "">>,
                   <<"info on ", "">>, <<"info about ", "">>, <<"info for ", "">>,
                   <<"what is ", "">> >>,
   category |-> READ, operation_prefix |-> "describe"],
  [intent_type |-> "get",
   patterns |-> << <<"get ", "">>, <<"fetch ", "">>, <<"retrieve ", "">> >>,
   category |-> READ, operation_prefix |-> "get"],
  [intent_type |-> "create",
   patterns |-> << <<"create ", "">>, <<"make ", "">>, <<"add ", "">>,
                   <<"launch ", "">>, <<"start ", "">> >>,
   category |-> WRITE, operation_prefix |-> "create"],
  [intent_type |-> "delete",
   patterns |-> << <<"delete ", "">>, <<"remove ", "">>, <<"destroy ", "">>,
                   <<"terminate ", "">>, <<"drop ", "">> >>,
   category |-> DESTRUCTIVE, operation_prefix |-> "delete"],
  [intent_type |-> "update",
   patterns |-> << <<"update ", "">>, <<"modify ", "">>, <<"change ", "">>,
                   <<"edit ", "">> >>,
   category |-> WRITE, operation_prefix |-> "update"],
  [intent_type |-> "stop",
   patterns |-> << <<"stop ", "">>, <<"halt ", "">>, <<"pause ", "">> >>,
   category |-> WRITE, operation_prefix |-> "stop"],
  [intent_type |-> "start",
   patterns |-> << <<"start ", "">>, <<"resume ", "">>, <<"run ", "">> >>,
   category |-> WRITE, operation_prefix |-> "start"]
>>

\* SERVICE_KEYWORDS, in dict order.
SERVICE_KEYWORDS == <<
  [service_name |-> "s3",
   keywords |-> <<"s3", "bucket", "buckets", "object", "objects", "storage">>,
   resource_types |-> <<<<"bucket", "list_buckets">>, <<"object", "list_objects_v2">>>>],
  [service_name |-> "ec2",
   keywords |-> <<"ec2", "instance", "instances", "ami", "amis", "ebs", "volume", "volumes", "vpc", "vpcs", "subnet", "subnets", "security group", "security groups">>,
   resource_types |-> <<<<"instance", "describe_instances">>, <<"volume", "describe_volumes">>, <<"vpc", "describe_vpcs">>, <<"subnet", "describe_subnets">>, <<"security group", "describe_security_groups">>, <<"ami", "describe_images">>>>],
  [service_name |-> "lambda",
   keywords |-> <<"lambda", "function", "functions", "serverless">>,
   resource_types |-> <<<<"function", "list_functions">>>>],
  [service_name |-> "iam",
   keywords |-> <<"iam", "role", "roles", "user", "users", "policy", "policies", "permission", "permissions", "group", "groups">>,
   resource_types |-> <<<<"role", "list_roles">>, <<"user", "list_users">>, <<"policy", "list_policies">>, <<"group", "list_groups">>>>],
  [service_name |-> "rds",
   keywords |-> <<"rds", "database", "databases", "db", "mysql", "postgres", "postgresql", "aurora", "mariadb">>,
   resource_types |-> <<<<"instance", "describe_db_instances">>, <<"cluster", "describe_db_clusters">>, <<"snapshot", "describe_db_snapshots">>>>],
  [service_name |-> "dynamodb",
   keywords |-> <<"dynamodb", "dynamo", "table", "tables", "nosql">>,
   resource_types |-> <<<<"table", "list_tables">>>>],
  [service_name |-> "ecs",
   keywords |-> <<"ecs", "container", "containers", "cluster", "clusters", "task", "tasks", "service", "services">>,
   resource_types |-> <<<<"cluster", "list_clusters">>, <<"service", "list_services">>, <<"task", "list_tasks">>>>],
  [service_name |-> "eks",
   keywords |-> <<"eks", "kubernetes", "k8s">>,
   resource_types |-> <<<<"cluster", "list_clusters">>>>],
  [service_name |-> "cloudformation",
   keywords |-> <<"cloudformation", "cfn", "stack", "stacks", "template", "templates">>,
   resource_types |-> <<<<"stack", "list_stacks">>>>],
  [service_name |-> "cloudwatch",
   keywords |-> <<"cloudwatch", "logs", "log", "metric", "metrics", "alarm", "alarms", "dashboard", "dashboards">>,
   resource_types |-> <<<<"alarm", "describe_alarms">>, <<"metric", "list_metrics">>, <<"log group", "describe_log_groups">>>>],
  [service_name |-> "sns",
   keywords |-> <<"sns", "notification", "notifications", "topic", "topics">>,
   resource_types |-> <<<<"topic", "list_topics">>>>],
  [service_name |-> "sqs",
   keywords |-> <<"sqs", "queue", "queues", "message", "messages">>,
   resource_types |-> <<<<"queue", "list_queues">>>>],
  [service_name |-> "secretsmanager",
   keywords |-> <<"secret", "secrets", "secretsmanager", "secrets manager">>,
   resource_types |-> <<<<"secret", "list_secrets">>>>],
  [service_name |-> "ssm",
   keywords |-> <<"ssm", "parameter", "parameters", "systems manager">>,
   resource_types |-> <<<<"parameter", "describe_parameters">>>>],
  [service_name |-> "route53",
   keywords |-> <<"route53", "dns", "domain", "domains", "hosted zone", "hosted zones", "record", "records">>,
   resource_types |-> <<<<"hosted zone", "list_hosted_zones">>>>],
  [service_name |-> "cloudfront",
   keywords |-> <<"cloudfront", "cdn", "distribution", "distributions">>,
   resource_types |-> <<<<"distribution", "list_distributions">>>>],
  [service_name |-> "apigateway",
   keywords |-> <<"apigateway", "api gateway", "api", "apis", "rest api">>,
   resource_types |-> <<<<"api", "get_rest_apis">>>>],
  [service_name |-> "elasticache",
   keywords |-> <<"elasticache", "redis", "memcached", "cache">>,
   resource_types |-> <<<<"cluster", "describe_cache_clusters">>>>],
  [service_name |-> "kinesis",
   keywords |-> <<"kinesis", "stream", "streams">>,
   resource_types |-> <<<<"stream", "list_streams">>>>],
  [service_name |-> "sagemaker",
   keywords |-> <<"sagemaker", "ml", "machine learning", "model", "notebook">>,
   resource_types |-> <<<<"notebook", "list_notebook_instances">>, <<"model", "list_models">>>>]
>>

\* DEFAULT_OPERATIONS: <<service, <<intent, operation>>...>>.
DEFAULT_OPERATIONS == <<
  <<"s3", <<<<"list", "list_buckets">>, <<"describe", "list_buckets">>, <<"get", "list_buckets">>>>>>,
  <<"ec2", <<<<"list", "describe_instances">>, <<"describe", "describe_instances">>, <<"get", "describe_instances">>>>>>,
  <<"lambda", <<<<"list", "list_functions">>, <<"describe", "list_functions">>, <<"get", "get_function">>>>>>,
  <<"iam", <<<<"list", "list_roles">>, <<"describe", "list_roles">>, <<"get", "get_role">>>>>>,
  <<"rds", <<<<"list", "describe_db_instances">>, <<"describe", "describe_db_instances">>>>>>,
  <<"dynamodb", <<<<"list", "list_tables">>, <<"describe", "list_tables">>>>>>,
  <<"ecs", <<<<"list", "list_clusters">>, <<"describe", "describe_clusters">>>>>>,
  <<"cloudformation", <<<<"list", "list_stacks">>, <<"describe", "describe_stacks">>>>>>,
  <<"secretsmanager", <<<<"list", "list_secrets">>, <<"describe", "list_secrets">>>>>>
>>

\* pattern.search(query_lower) for a compiled pattern <<head, tail>>.
pattern_search(pattern, query_lower) ==
    LET head == pattern[1]
        tail == pattern[2]
    IN  /\ startswith(query_lower, head)
        /\ Len(query_lower) > Len(head)
        /\ \/ tail = ""
           \/ \E j \in (Len(head) + 2)..(Len(query_lower) - Len(tail) + 1) :
                 SubSeq(query_lower, j, j + Len(tail) - 1) = tail

\* Whether some pattern of the i-th intent matches.
intent_matches(i, query_lower) ==
    \E k \in 1..Len(INTENT_PATTERNS[i].patterns) :
        pattern_search(INTENT_PATTERNS[i].patterns[k], query_lower)

\* IntentClassifier._classify_intent: the intent type, or None.
_classify_intent(query) ==
    LET query_lower == lower(query)
        matching == {i \in 1..Len(INTENT_PATTERNS) : intent_matches(i, query_lower)}
    IN  IF matching # {}
        THEN INTENT_PATTERNS[CHOOSE i \in matching : \A k \in matching : i <= k].intent_type
        ELSE IF \E word \in {"list", "show", "get", "all"} : contains(query_lower, word)
        THEN "list"
        ELSE None

\* The keywords of the i-th service that occur in the query.
matched_keywords(i, query_lower) ==
    {k \in 1..Len(SERVICE_KEYWORDS[i].keywords) :
        contains(query_lower, SERVICE_KEYWORDS[i].keywords[k])}

\* The score of the i-th service as the fraction <<numerator, denominator>>:
\* matched / len(keywords), plus 0.3 if the service name occurs in the query.
service_score(i, query_lower) ==
    LET n == Len(SERVICE_KEYWORDS[i].keywords)
        bonus == IF contains(query_lower, SERVICE_KEYWORDS[i].service_name) THEN 3 ELSE 0
    IN  <<10 * Cardinality(matched_keywords(i, query_lower)) + bonus * n, 10 * n>>

\* a > b on fractions with positive denominators.
score_greater(a, b) == a[1] * b[2] > b[1] * a[2]

\* The loop of _identify_service from the i-th service on: the index of the
\* best match, 0 for none.
RECURSIVE best_service(_, _, _, _)
best_service(query_lower, i, best_match, best_score) ==
    IF i > Len(SERVICE_KEYWORDS) THEN best_match
    ELSE IF /\ matched_keywords(i, query_lower) # {}
            /\ score_greater(service_score(i, query_lower), best_score)
         THEN best_service(query_lower, i + 1, i, service_score(i, query_lower))
         ELSE best_service(query_lower, i + 1, best_match, best_score)

\* IntentClassifier._identify_service: the index of the service in
\* SERVICE_KEYWORDS, 0 for None.
_identify_service(query) == best_service(lower(query), 1, 0, <<0, 1>>)

\* The default operations of a service as a tuple of <<intent, operation>>.
default_ops(service_name) ==
    LET found == {i \in 1..Len(DEFAULT_OPERATIONS) : DEFAULT_OPERATIONS[i][1] = service_name}
    IN  IF found = {} THEN <<>> ELSE DEFAULT_OPERATIONS[CHOOSE i \in found : TRUE][2]

\* A ParsedOperation.
ParsedOperation(service_name, operation_name) ==
    [operation_name |-> operation_name,
     category |-> classify(service_name, operation_name)]

\* Mutant of _determine_operation: the operation is looked up by intent only,
\* and built from the intent when the service has no default for it.
_determine_operation_from_intent(intent_type, service, query) ==
    LET service_name == SERVICE_KEYWORDS[service].service_name
        defaults == default_ops(service_name)
        for_intent == {d \in 1..Len(defaults) : defaults[d][1] = intent_type}
    IN  IF for_intent # {}
        THEN ParsedOperation(service_name, defaults[CHOOSE d \in for_intent : TRUE][2])
        ELSE ParsedOperation(service_name, intent_type \o "_resources")

\* IntentClassifier._determine_operation
_determine_operation(intent_type, service, query) ==
    LET query_lower == lower(query)
        service_name == SERVICE_KEYWORDS[service].service_name
        resource_types == SERVICE_KEYWORDS[service].resource_types
        mentioned == {r \in 1..Len(resource_types) : contains(query_lower, resource_types[r][1])}
        defaults == default_ops(service_name)
        for_intent == {d \in 1..Len(defaults) : defaults[d][1] = intent_type}
    IN  IF mentioned # {}
        THEN ParsedOperation(service_name,
                 resource_types[CHOOSE r \in mentioned : \A k \in mentioned : r <= k][2])
        ELSE IF for_intent # {}
        THEN ParsedOperation(service_name, defaults[CHOOSE d \in for_intent : TRUE][2])
        ELSE ParsedOperation(service_name,
                 IF Len(resource_types) > 0 THEN resource_types[1][2]
                 ELSE intent_type \o "_resources")

(***************************************************************************)
(* _extract_parameters: leftmost matches of the parameter patterns.        *)
(***************************************************************************)
digits == "0123456789"
hexdigits == "abcdef" \o digits
alphanumerics == ascii_lowercase \o digits
word_characters == ascii_lowercase \o ascii_uppercase \o digits \o "_"
quotes == "'\""

in_class(c, chars) == \E i \in 1..Len(chars) : CharAt(chars, i) = c

\* Whether the literal lit occurs in s at position p.
at(s, p, lit) ==
    /\ p >= 1 /\ p + Len(lit) - 1 <= Len(s)
    /\ SubSeq(s, p, p + Len(lit) - 1) = lit

\* The number of consecutive characters of s from position p on that are in
\* chars, at most limit: what a greedy [chars]{0,limit} consumes.
RECURSIVE run_length(_, _, _, _)
run_length(s, p, chars, limit) ==
    IF limit = 0 \/ p > Len(s) \/ ~in_class(CharAt(s, p), chars) THEN 0
    ELSE 1 + run_length(s, p + 1, chars, limit - 1)

spaces(s, p) == run_length(s, p, " ", Len(s))

\* The position after an optional quote at p.
skip_quote(s, p) == IF p <= Len(s) /\ in_class(CharAt(s, p), quotes) THEN p + 1 ELSE p

\* The least position of ps.
leftmost(ps) == CHOOSE p \in ps : \A k \in ps : p <= k

\* int() of a string of digits.
RECURSIVE int(_)
int(s) ==
    IF s = "" THEN 0
    ELSE 10 * int(SubSeq(s, 1, Len(s) - 1))
         + (CHOOSE d \in 0..9 : CharAt(digits, d + 1) = CharAt(s, Len(s)))

\* (us-\w+-\d+|eu-\w+-\d+|ap-\w+-\d+) at position n: the text matched, "" if none.
region_name_at(q, n) ==
    LET w == run_length(q, n + 3, word_characters, Len(q))
        d == run_length(q, n + 3 + w + 1, digits, Len(q))
    IN  IF /\ \E prefix \in {"us-", "eu-", "ap-"} : at(q, n, prefix)
           /\ w >= 1 /\ at(q, n + 3 + w, "-") /\ d >= 1
        THEN SubSeq(q, n, n + 3 + w + d)
        ELSE ""

\* (?:in|region)\s+(...) matched at position p: the group, "" if no match.
region_at(q, p) ==
    LET after == IF at(q, p, "in") THEN p + 2
                 ELSE IF at(q, p, "region") THEN p + 6 ELSE 0
    IN  IF after # 0 /\ spaces(q, after) >= 1
        THEN region_name_at(q, after + spaces(q, after))
        ELSE ""

\* (i-[a-f0-9]{8,17}) matched at position p.
instance_at(q, p) ==
    LET r == run_length(q, p + 2, hexdigits, 17)
    IN  IF at(q, p, "i-") /\ r >= 8 THEN SubSeq(q, p, p + 1 + r) ELSE ""

\* bucket\s+['"]?([a-z0-9][a-z0-9.-]{1,61}[a-z0-9])['"]? matched at position p.
bucket_at(q, p) ==
    LET n == skip_quote(q, p + 6 + spaces(q, p + 6))
        r == run_length(q, n + 1, alphanumerics \o ".-", 62)
        ends == {k \in 2..r : in_class(CharAt(q, n + k), alphanumerics)}
    IN  IF /\ at(q, p, "bucket") /\ spaces(q, p + 6) >= 1
           /\ n <= Len(q) /\ in_class(CharAt(q, n), alphanumerics)
           /\ ends # {}
        THEN SubSeq(q, n, n + (CHOOSE k \in ends : \A j \in ends : j <= k))
        ELSE ""

\* function\s+['"]?([a-zA-Z0-9_-]+)['"]? matched at position p.
function_at(q, p) ==
    LET n == skip_quote(q, p + 8 + spaces(q, p + 8))
        r == run_length(q, n, word_characters \o "-", Len(q))
    IN  IF at(q, p, "function") /\ spaces(q, p + 8) >= 1 /\ r >= 1
        THEN SubSeq(q, n, n + r - 1)
        ELSE ""

\* ['"]?(\w+)['"]?\s*[=:]\s*['"]?(\w+) matched at position p: <<key, value>>,
\* <<>> if no match.
tag_pair_at(q, p) ==
    LET k == skip_quote(q, p)
        kw == run_length(q, k, word_characters, Len(q))
        s1 == skip_quote(q, k + kw)
        sep == s1 + spaces(q, s1)
        v == skip_quote(q, sep + 1 + spaces(q, sep + 1))
        vw == run_length(q, v, word_characters, Len(q))
    IN  IF kw >= 1 /\ (at(q, sep, "=") \/ at(q, sep, ":")) /\ vw >= 1
        THEN <<SubSeq(q, k, k + kw - 1), SubSeq(q, v, v + vw - 1)>>
        ELSE <<>>

\* tagged?\s+(?:with\s+)?... matched at position p: <<key, value>> or <<>>.
tag_at(q, p) ==
    LET a == IF at(q, p + 5, "d") THEN p + 6 ELSE p + 5
        n == a + spaces(q, a)
        m == n + 4 + spaces(q, n + 4)
    IN  IF ~(at(q, p, "tagge") /\ spaces(q, a) >= 1) THEN <<>>
        ELSE IF /\ at(q, n, "with") /\ spaces(q, n + 4) >= 1
                /\ tag_pair_at(q, m) # <<>>
        THEN tag_pair_at(q, m)
        ELSE tag_pair_at(q, n)

\* (?:top|first|limit)\s+(\d+) matched at position p: the digits, "" if none.
limit_at(q, p) ==
    LET after == IF at(q, p, "top") THEN p + 3
                 ELSE IF at(q, p, "first") \/ at(q, p, "limit") THEN p + 5 ELSE 0
        n == after + spaces(q, after)
        d == run_length(q, n, digits, Len(q))
    IN  IF after # 0 /\ spaces(q, after) >= 1 /\ d >= 1
        THEN SubSeq(q, n, n + d - 1)
        ELSE ""

\* The empty parameter map.
EmptyParameters == [x \in {} |-> x]

\* {name: value} if matches is not empty, with value built from the leftmost.
parameter_if(matches, name, value(_)) ==
    IF matches = {} THEN EmptyParameters ELSE name :> value(leftmost(matches))

\* IntentClassifier._extract_parameters, as the map {p.name: p.value}.
_extract_parameters(query, service, operation) ==
    LET q == lower(query)
        positions == 1..Len(q)
        region_value(p) == PyStr(region_at(q, p))
        instance_value(p) == PyList(<<PyStr(instance_at(q, p))>>)
        bucket_value(p) == PyStr(bucket_at(q, p))
        function_value(p) == PyStr(function_at(q, p))
        tag_value(p) ==
            PyList(<<PyDict(("Name" :> PyStr("tag:" \o tag_at(q, p)[1]))
                            @@ ("Values" :> PyList(<<PyStr(tag_at(q, p)[2])>>)))>>)
        limit_value(p) == PyInt(int(limit_at(q, p)))
    IN  parameter_if({p \in positions : region_at(q, p) # ""}, "region", region_value)
        @@ parameter_if({p \in positions : instance_at(q, p) # ""}, "InstanceIds", instance_value)
        @@ (IF service = "s3"
            THEN parameter_if({p \in positions : bucket_at(q, p) # ""}, "Bucket", bucket_value)
            ELSE EmptyParameters)
        @@ (IF service = "lambda"
            THEN parameter_if({p \in positions : function_at(q, p) # ""}, "FunctionName", function_value)
            ELSE EmptyParameters)
        @@ parameter_if({p \in positions : tag_at(q, p) # <<>>}, "Filters", tag_value)
        @@ parameter_if({p \in positions : limit_at(q, p) # ""}, "MaxResults", limit_value)

(***************************************************************************)
(* parser/schemas.py and IntentClassifier.classify                         *)
(***************************************************************************)
\* StructuredCommand: the field validator lower-cases service and operation.
StructuredCommand(service, operation, parameters, category, region, raw_input) ==
    [service |-> lower(service), operation |-> lower(operation),
     parameters |-> parameters, category |-> category, region |-> region,
     raw_input |-> raw_input]

\* ParseResult.error_result
error_result(error, suggestions) ==
    [success |-> FALSE, error |-> error, suggestions |-> suggestions]

\* ParseResult.success_result
success_result(command, intent) ==
    [success |-> TRUE, command |-> command, intent |-> intent]

\* IntentClassifier.classify, after the intent was found.
classify_with_intent(query, intent) ==
    LET service == _identify_service(query)
        service_name == SERVICE_KEYWORDS[service].service_name
        operation == _determine_operation(intent, service, query)
    IN  IF service = 0
        THEN error_result("Could not identify the AWS service. Please specify a service like S3, EC2, or Lambda.",
                          <<"list S3 buckets", "describe EC2 instances", "get IAM roles">>)
        ELSE success_result(
                 StructuredCommand(service_name, operation.operation_name,
                     _extract_parameters(query, service_name, operation.operation_name),
                     operation.category, None, query),
                 intent)

\* IntentClassifier.classify
IntentClassifier_classify(text) ==
    LET query == strip(text)
    IN  IF query = "" THEN error_result("Empty query provided", <<>>)
        ELSE IF _classify_intent(query) = None
        THEN error_result("Could not understand the intent. Try phrases like 'list buckets' or 'describe instances'.",
                          <<"list S3 buckets", "show EC2 instances", "get Lambda functions">>)
        ELSE classify_with_intent(query, _classify_intent(query))

(***************************************************************************)
(* core/environment.py: the environments the manager switches between.     *)
(* Of an EnvironmentConfig the name, the type, the endpoint, the region and *)
(* the is_active flag are kept.                                            *)
(***************************************************************************)
PRODUCTION == "production"
LOCALSTACK == "localstack"
EnvironmentType == {PRODUCTION, LOCALSTACK}

\* EnvironmentConfig(name, type, endpoint_url, region), is_active defaulting
\* to False.
EnvironmentConfig(name, type, endpoint_url, region) ==
    [name |-> name, type |-> type, endpoint_url |-> endpoint_url, region |-> region,
     is_active |-> FALSE]

DEFAULT_PRODUCTION_CONFIG == EnvironmentConfig("production", PRODUCTION, None, "us-east-1")
DEFAULT_LOCALSTACK_CONFIG ==
    EnvironmentConfig("localstack", LOCALSTACK, "http://localhost:4566", "us-east-1")

\* EnvironmentSwitchResult; environment is the name of the environment
\* returned, or None.
EnvironmentSwitchResult(success, environment, message, warnings) ==
    [success |-> success, environment |-> environment, message |-> message,
     warnings |-> warnings]
(***************************************************************************)
(* State.                                                                  *)
(*   mode            SafetyEnforcer.config.mode, shared by every request   *)
(*   active_profile  SessionManager.active_profile                         *)
(*   pc, req, current_command, decision, issued, recorded, result          *)
(*                   the engine's call in flight: its position, its        *)
(*                   arguments, the command it runs, the mode its safety   *)
(*                   check read and the decision it got, the provider      *)
(*                   calls it has issued, what the conversation context    *)
(*                   did when the engine recorded the answer, what the     *)
(*                   call returned                                         *)
(*   probe           the last direct call of a pure component together     *)
(*                   with what it returned                                 *)
(***************************************************************************)
VARIABLES mode, active_profile, pc, req, current_command, decision, issued, recorded,
          result,
          _environments, _active_environment, switch_result,
          probe

vars == <<mode, active_profile, pc, req, current_command, decision, issued, recorded,
          result,
          _environments, _active_environment, switch_result,
          probe>>
call_vars == <<req, current_command, decision, issued, recorded, result>>
environment_vars == <<_environments, _active_environment, switch_result>>
engine_vars == <<active_profile, pc, call_vars, environment_vars>>

\* No request, decision or result yet.
NoRequest == [via |-> None]
NoCommand == [none |-> TRUE]
NoDecision == [none |-> TRUE]
NoResult == [none |-> TRUE]
\* The engine has not called the conversation context.
NotRecorded == "none"
NoProbe == [fn |-> None, done |-> TRUE]

\* EnvironmentManager.__init__: the two default environments, production
\* active; no switch has been asked for.
EnvironmentManager_init ==
    /\ _environments = [name \in {"production", "localstack"} |->
                           IF name = "production"
                           THEN [DEFAULT_PRODUCTION_CONFIG EXCEPT !.is_active = TRUE]
                           ELSE DEFAULT_LOCALSTACK_CONFIG]
    /\ _active_environment = "production"
    /\ switch_result = NoResult

\* The engine and its collaborators after construction: no profile is
\* selected and no call has been made.
InitEngine ==
    /\ active_profile = None
    /\ pc = "idle"
    /\ req = NoRequest
    /\ current_command = NoCommand
    /\ decision = NoDecision
    /\ issued = <<>>
    /\ recorded = NotRecorded
    /\ result = NoResult
    /\ EnvironmentManager_init

\* The state after construction: SafetyConfig.mode defaults to READ_ONLY.
Init ==
    /\ mode = READ_ONLY
    /\ InitEngine
    /\ probe = NoProbe

\* SafetyEnforcer.set_mode
set_mode(m) ==
    /\ mode' = m
    /\ UNCHANGED <<engine_vars, probe>>

(***************************************************************************)
(* Inputs of the direct calls.                                             *)
(***************************************************************************)
\* The largest bulk parameter list the inputs hold.
MaxBulk == 100

\* The two halves of a denylist key "service.operation".
key_service(key) == SubSeq(key, 1, find(key, ".") - 1)
key_operation(key) == SubSeq(key, find(key, ".") + 1, Len(key))
KeyPairs(keys) == {<<key_service(k), key_operation(k)>> : k \in keys}

Range(seq) == {seq[i] : i \in 1..Len(seq)}
AllPrefixes ==
    Range(DESTRUCTIVE_PREFIXES) \cup Range(WRITE_PREFIXES) \cup Range(READ_PREFIXES)

\* Operation names that start with a prefix: the bare prefix and prefix_resource.
PrefixedOperations == AllPrefixes \cup {p \o "_resource" : p \in AllPrefixes}

\* Operation names no prefix matches, and names whose prefix is misleading.
OtherOperations ==
    {"run_instances", "invoke", "leave_organization", "close_account",
     "schedule_key_deletion", "send_message", "publish", "assume_role",
     "undelete_resource", "list_deleted_resources", "get_removed_items",
     "describe_terminated", "settings", "address_lookup", "x", ""}

GenericServices == {"s3", "ec2", "logs", "nosuchservice"}

TablePairs ==
    (DOMAIN OPERATION_OVERRIDES) \cup KeyPairs(DENYLIST)
        \cup KeyPairs(DOUBLE_CONFIRM_OPERATIONS) \cup KeyPairs(WARN_OPERATIONS)

CaseVariants(s) == {s, upper(s), capitalize(s)}

\* Inputs of classify and is_operation_blocked: every pair of the tables and
\* the generic operations on a few services, in three letter cases each.
ClassifierInputs ==
    UNION {CaseVariants(p[1]) \X CaseVariants(p[2]) :
              p \in TablePairs \cup (GenericServices \X (PrefixedOperations \cup OtherOperations))}

\* Inputs of evaluate: the same pairs with service and operation in the same
\* letter case.
EnforcerInputs ==
    UNION {{p, <<upper(p[1]), upper(p[2])>>, <<capitalize(p[1]), capitalize(p[2])>>} :
              p \in TablePairs \cup ({"s3"} \X (PrefixedOperations \cup OtherOperations))}

IdList(n) == PyList([i \in 1..n |-> PyStr("i-0")])

\* Parameter maps: none, bulk lists at, below and above the ceiling, the S3
\* Delete shape, and values of other types.
ParameterMaps ==
    {EmptyParameters,
     "Bucket" :> PyStr("my-bucket"),
     "InstanceIds" :> IdList(1),
     "InstanceIds" :> IdList(max_resources_per_operation),
     "InstanceIds" :> IdList(max_resources_per_operation + 1),
     "InstanceIds" :> IdList(MaxBulk),
     "ResourceIds" :> IdList(MaxBulk),
     ("InstanceIds" :> IdList(2)) @@ ("ResourceArns" :> IdList(max_resources_per_operation + 1)),
     "FunctionNames" :> IdList(max_resources_per_operation + 1),
     ("Bucket" :> PyStr("my-bucket")) @@ ("Delete" :> PyDict("Objects" :> IdList(MaxBulk))),
     "Delete" :> PyDict("Quiet" :> PyInt(1)),
     "InstanceIds" :> PyStr("i-0123456789abcdef0"),
     "InstanceIds" :> PyInt(5)}

(***************************************************************************)
(* Direct calls of the pure components.  The arguments of the call are     *)
(* drawn by the initial state; the action makes the call and records what  *)
(* it returned.                                                            *)
(***************************************************************************)
PendingCall(fn, service, operation) ==
    [fn |-> fn, done |-> FALSE, service |-> service, operation |-> operation]

\* OperationClassifier.classify(service, operation)
classify_call ==
    /\ probe.fn = "classify" /\ ~probe.done
    /\ probe' = [fn |-> "classify", done |-> TRUE,
                 service |-> probe.service, operation |-> probe.operation,
                 out |-> classify(probe.service, probe.operation)]
    /\ UNCHANGED <<mode, engine_vars>>

\* is_operation_blocked(service, operation)
is_operation_blocked_call ==
    /\ probe.fn = "is_operation_blocked" /\ ~probe.done
    /\ probe' = [fn |-> "is_operation_blocked", done |-> TRUE,
                 service |-> probe.service, operation |-> probe.operation,
                 out |-> is_operation_blocked(probe.service, probe.operation)]
    /\ UNCHANGED <<mode, engine_vars>>

\* SafetyEnforcer.evaluate(service, operation, parameters)
evaluate_call ==
    /\ probe.fn = "evaluate" /\ ~probe.done
    /\ probe' = [fn |-> "evaluate", done |-> TRUE,
                 service |-> probe.service, operation |-> probe.operation,
                 parameters |-> probe.parameters, mode |-> mode,
                 out |-> evaluate(mode, probe.service, probe.operation,
                                  probe.parameters)]
    /\ UNCHANGED <<mode, engine_vars>>

InitClassifier ==
    /\ mode = READ_ONLY
    /\ InitEngine
    /\ probe \in {PendingCall(fn, p[1], p[2]) :
                    fn \in {"classify", "is_operation_blocked"},
                    p \in ClassifierInputs}

NextClassifier ==
    \/ classify_call
    \/ is_operation_blocked_call

SpecClassifier == InitClassifier /\ [][NextClassifier]_vars

\* get_block_reason(service, operation)
get_block_reason_call ==
    /\ probe.fn = "get_block_reason" /\ ~probe.done
    /\ probe' = [fn |-> "get_block_reason", done |-> TRUE,
                 service |-> probe.service, operation |-> probe.operation,
                 out |-> get_block_reason(probe.service, probe.operation)]
    /\ UNCHANGED <<mode, engine_vars>>

\* A SafetyEnforcer is constructed with a config of any mode.
InitEnforcer ==
    /\ mode \in SafetyMode
    /\ InitEngine
    /\ probe \in {[fn |-> "evaluate", done |-> FALSE, service |-> p[1],
                   operation |-> p[2], parameters |-> parameters] :
                    p \in EnforcerInputs, parameters \in ParameterMaps}
                 \cup {PendingCall("get_block_reason", p[1], p[2]) :
                          p \in EnforcerInputs}

NextEnforcer ==
    \/ \E m \in SafetyMode : set_mode(m)
    \/ evaluate_call
    \/ get_block_reason_call

SpecEnforcer == InitEnforcer /\ [][NextEnforcer]_vars


(***************************************************************************)
(* Direct calls of IntentClassifier.classify.                              *)
(***************************************************************************)
\* How a query begins: a phrase of each intent, phrases only the keyword
\* fallback recognises, and phrases with no intent.
QueryHeads ==
    {"list ", "show me all ", "get ", "describe ", "what is ", "fetch ",
     "create a new ", "start ", "delete ", "terminate ", "update ", "stop ",
     "run ", "please show ", "hello ", "DELETE "}

\* What a query is about: every keyword of every service, and phrases that
\* carry parameters or name no service.
QueryTopics ==
    UNION {Range(SERVICE_KEYWORDS[i].keywords) : i \in 1..Len(SERVICE_KEYWORDS)}
    \cup {"things", "s3 bucket my-bucket", "bucket my.data-2 in eu-west-1",
          "ec2 instance i-0123456789abcdef0", "instances in region us-east-1",
          "lambda function my_func", "instances tagged with env=prod",
          "first 10 s3 objects", "S3 Buckets", "iam policy for lambda role"}

QueryTexts ==
    {h \o t : h \in QueryHeads, t \in QueryTopics}
    \cup {"", "   ", "hello", "list", " list s3 buckets ", "what buckets do i have",
          "what have", "s3", "show"}

\* IntentClassifier.classify(query)
IntentClassifier_classify_call ==
    /\ probe.fn = "IntentClassifier.classify" /\ ~probe.done
    /\ probe' = [fn |-> "IntentClassifier.classify", done |-> TRUE,
                 text |-> probe.text, out |-> IntentClassifier_classify(probe.text)]
    /\ UNCHANGED <<mode, engine_vars>>

InitIntent ==
    /\ mode = READ_ONLY
    /\ InitEngine
    /\ probe \in {[fn |-> "IntentClassifier.classify", done |-> FALSE, text |-> t] :
                    t \in QueryTexts}

NextIntent == IntentClassifier_classify_call

SpecIntent == InitIntent /\ [][NextIntent]_vars

(***************************************************************************)
(* parser/service_models.py: ServiceModelRegistry.  The botocore data the  *)
(* Loader reads is installed with botocore; here it is a small catalog     *)
(* with the layout of service-2.json and paginators-1.json.                *)
(***************************************************************************)
\* An operation of service-2.json with its input shape: the required list
\* and the members, each a reference to a shape.
Operation(name, required, members) ==
    [name |-> name, has_input |-> TRUE, required |-> required,
     members |-> [m \in members |-> [shape |-> m]]]

\* An operation without input shape.
OperationWithoutInput(name) ==
    [name |-> name, has_input |-> FALSE, required |-> <<>>,
     members |-> EmptyParameters]

\* Loader.load_service_model(service, "service-2")["operations"], in file order.
service_models ==
    ("s3" :> <<OperationWithoutInput("ListBuckets"),
               Operation("ListObjectsV2", <<"Bucket">>, {"Bucket", "MaxKeys", "Prefix"}),
               Operation("PutObject", <<"Bucket", "Key">>, {"Bucket", "Key", "Body"}),
               Operation("DeleteBucket", <<"Bucket">>, {"Bucket"}),
               Operation("DeleteObjects", <<"Bucket", "Delete">>, {"Bucket", "Delete"}),
               Operation("PutBucketPolicy", <<"Bucket", "Policy">>, {"Bucket", "Policy"})>>)
    @@ ("ec2" :> <<Operation("DescribeInstances", <<>>, {"InstanceIds", "Filters", "MaxResults", "DryRun"}),
                   Operation("AuthorizeSecurityGroupIngress", <<>>, {"GroupId", "CidrIp", "DryRun"}),
                   Operation("StartInstances", <<"InstanceIds">>, {"InstanceIds", "DryRun"}),
                   Operation("TerminateInstances", <<"InstanceIds">>, {"InstanceIds", "DryRun"}),
                   Operation("DeleteFlowLogs", <<"FlowLogIds">>, {"FlowLogIds", "DryRun"})>>)
    @@ ("lambda" :> <<Operation("ListFunctions", <<>>, {"MaxItems", "Marker"}),
                      Operation("GetFunction", <<"FunctionName">>, {"FunctionName"}),
                      Operation("Invoke", <<"FunctionName">>, {"FunctionName", "Payload"})>>)
    @@ ("iam" :> <<Operation("ListRoles", <<>>, {"PathPrefix", "MaxItems"}),
                   Operation("GetRole", <<"RoleName">>, {"RoleName"}),
                   Operation("DeleteAccountAlias", <<"AccountAlias">>, {"AccountAlias"})>>)
    @@ ("cloudtrail" :> <<Operation("DescribeTrails", <<>>, {"trailNameList"}),
                          Operation("DeleteTrail", <<"Name">>, {"Name"}),
                          Operation("StopLogging", <<"Name">>, {"Name"})>>)
    @@ ("organizations" :> <<OperationWithoutInput("LeaveOrganization")>>)
    @@ ("kms" :> <<Operation("ScheduleKeyDeletion", <<"KeyId">>, {"KeyId", "PendingWindowInDays"})>>)

\* Loader.load_service_model(service, "paginators-1")["pagination"]: the
\* result_key of each paginator.
paginators ==
    ("s3" :> ("ListObjectsV2" :> "Contents"))
    @@ ("ec2" :> ("DescribeInstances" :> "Reservations"))
    @@ ("lambda" :> ("ListFunctions" :> "Functions"))
    @@ ("iam" :> ("ListRoles" :> "Roles"))

available_services == DOMAIN service_models

\* ServiceModelRegistry.service_exists
service_exists(service) == lower(service) \in available_services

\* ServiceModelRegistry.get_operations: the operations of a service, <<>> for
\* an unknown service.
operations_of(service_name) ==
    IF service_name \in available_services THEN service_models[service_name] ELSE <<>>

get_operations(service) == operations_of(lower(service))

\* "".join(word.capitalize() for word in operation.split("_"))
RECURSIVE pascal_case(_)
pascal_case(operation) ==
    LET cut == find(operation, "_")
    IN  IF cut = 0 THEN capitalize(operation)
        ELSE capitalize(SubSeq(operation, 1, cut - 1))
             \o pascal_case(SubSeq(operation, cut + 1, Len(operation)))

\* ServiceModelRegistry.get_operation_model: the operation named as written,
\* else the one named in PascalCase, else None.
NoOperation == [name |-> None, has_input |-> FALSE]

named(operations, name) == {i \in 1..Len(operations) : operations[i].name = name}

find_operation(operations, operation, pascal_case_name) ==
    IF named(operations, operation) # {}
    THEN operations[CHOOSE i \in named(operations, operation) : TRUE]
    ELSE IF named(operations, pascal_case_name) # {}
    THEN operations[CHOOSE i \in named(operations, pascal_case_name) : TRUE]
    ELSE NoOperation

get_operation_model(service, operation) ==
    find_operation(get_operations(service), operation, pascal_case(operation))

\* ServiceModelRegistry.operation_exists
operation_exists(service, operation) ==
    get_operation_model(service, operation).name # None

\* ServiceModelRegistry.get_input_shape: the required list and the members,
\* NoShape for an operation that is not found or has no input shape.
NoShape == [none |-> TRUE]

input_shape(op_model) ==
    IF op_model.has_input
    THEN [required |-> op_model.required, members |-> op_model.members]
    ELSE NoShape

get_input_shape(service, operation) ==
    input_shape(get_operation_model(service, operation))

\* shape.get("required", []) and shape.get("members", {}) of a shape or None.
shape_required(shape) == IF shape # NoShape THEN shape.required ELSE <<>>
shape_members(shape) == IF shape # NoShape THEN shape.members ELSE EmptyParameters

\* ServiceModelRegistry.get_required_parameters
get_required_parameters(service, operation) ==
    shape_required(get_input_shape(service, operation))

\* ServiceModelRegistry.get_parameter_type: param_info.get("type").
member_type(members, parameter) ==
    IF parameter \in DOMAIN members /\ "type" \in DOMAIN members[parameter]
    THEN members[parameter]["type"]
    ELSE None

get_parameter_type(service, operation, parameter) ==
    member_type(shape_members(get_input_shape(service, operation)), parameter)

\* ServiceModelRegistry._type_matches: isinstance(value, type_map[expected]),
\* true for a type the map does not have.
_type_matches(value, expected_type) ==
    LET expected == lower(expected_type)
    IN  CASE expected = "string" -> value.t = "str"
          [] expected \in {"integer", "long"} -> value.t = "int"
          [] expected = "boolean" -> value.t = "bool"
          [] expected = "list" -> value.t = "list"
          [] expected \in {"map", "structure"} -> value.t = "dict"
          [] expected = "blob" -> value.t \in {"bytes", "str"}
          [] expected = "timestamp" -> value.t \in {"str", "int", "float"}
          [] expected \in {"float", "double"} -> value.t \in {"int", "float"}
          [] OTHER -> TRUE

\* ", ".join(items) and friends.
RECURSIVE join(_, _)
join(separator, items) ==
    IF Len(items) = 0 THEN ""
    ELSE IF Len(items) = 1 THEN items[1]
    ELSE items[1] \o separator \o join(separator, Tail(items))

\* [x for x in items if x in keep], in order.
RECURSIVE keep_only(_, _)
keep_only(items, keep) ==
    IF Len(items) = 0 THEN <<>>
    ELSE (IF Head(items) \in keep THEN <<Head(items)>> ELSE <<>>)
         \o keep_only(Tail(items), keep)

\* The names Python's type() reports.
type_name(value) == value.t

\* The parameter names of the model in one fixed order, standing for the
\* insertion order of the dict.
ParameterOrder ==
    <<"region", "Bucket", "Key", "Policy", "Delete", "InstanceIds", "ResourceIds",
      "ResourceArns", "FunctionNames", "FunctionName", "FlowLogIds", "GroupId",
      "Name", "KeyId", "Filters", "MaxResults", "MaxKeys", "Prefix", "Body", "DryRun",
      "PendingWindowInDays", "Colour">>

\* The type errors of validate_operation: one per parameter whose type is
\* known and does not match, types being the type of each parameter.
mismatched(parameters, types) ==
    {n \in DOMAIN parameters : types[n] # None /\ ~_type_matches(parameters[n], types[n])}

type_error_messages(names, parameters, types) ==
    [i \in 1..Len(names) |->
        "Parameter '" \o names[i] \o "' should be " \o types[names[i]]
        \o ", got " \o type_name(parameters[names[i]])]

typed_errors(parameters, types) ==
    type_error_messages(keep_only(ParameterOrder, mismatched(parameters, types)),
                        parameters, types)

type_errors(service, operation, parameters) ==
    typed_errors(parameters,
                 [n \in DOMAIN parameters |-> get_parameter_type(service, operation, n)])

\* [p for p in required if p not in parameters]
missing_parameters(required, parameters) ==
    keep_only(required, {p \in Range(required) : p \notin DOMAIN parameters})

\* [p for p in parameters.keys() if p not in known_params], nothing for an
\* operation without input shape.
unknown_parameters(shape, parameters) ==
    IF shape = NoShape THEN <<>>
    ELSE keep_only(ParameterOrder,
                   {p \in DOMAIN parameters : p \notin DOMAIN shape.members})

\* The ValidationResult of validate_operation.
ValidationResult(missing, unknown, errors) ==
    [valid |-> Len(missing) = 0 /\ Len(errors) = 0,
     errors |-> (IF Len(missing) > 0
                 THEN <<"Missing required parameters: " \o join(", ", missing)>>
                 ELSE <<>>) \o errors,
     warnings |-> IF Len(unknown) > 0
                  THEN <<"Unknown parameters (may be ignored): " \o join(", ", unknown)>>
                  ELSE <<>>,
     missing_required |-> missing]

\* ServiceModelRegistry.validate_operation, after service and operation were
\* found.
validate_parameters(service, operation, parameters) ==
    ValidationResult(
        missing_parameters(get_required_parameters(service, operation), parameters),
        unknown_parameters(get_input_shape(service, operation), parameters),
        type_errors(service, operation, parameters))

\* ServiceModelRegistry.validate_operation; the suggestions of similar names
\* (difflib) are left out of the two messages.
validate_operation(service, operation, parameters) ==
    IF ~service_exists(service)
    THEN [valid |-> FALSE, errors |-> <<"Unknown service '" \o service \o "'.">>,
          warnings |-> <<>>, missing_required |-> <<>>]
    ELSE IF ~operation_exists(service, operation)
    THEN [valid |-> FALSE,
          errors |-> <<"Operation '" \o operation \o "' not found for service '"
                       \o service \o "'.">>,
          warnings |-> <<>>, missing_required |-> <<>>]
    ELSE validate_parameters(service, operation, parameters)

\* The paginators of a service; loading the paginator model of a service that
\* has none raises, which both callers turn into "no paginator".
service_paginators(service) ==
    IF service \in DOMAIN paginators THEN paginators[service] ELSE EmptyParameters

\* ServiceModelRegistry.supports_pagination
supports_pagination(service, operation) ==
    \/ pascal_case(operation) \in DOMAIN service_paginators(service)
    \/ operation \in DOMAIN service_paginators(service)

\* ServiceModelRegistry.get_result_key
get_result_key(service, operation) ==
    LET config == service_paginators(service)
    IN  IF pascal_case(operation) \in DOMAIN config THEN config[pascal_case(operation)]
        ELSE IF operation \in DOMAIN config THEN config[operation]
        ELSE None

\* ServiceModelRegistry._to_snake_case: an underscore goes before a capital
\* that a lower-case letter follows or that a lower-case letter or digit
\* precedes; then the name is lower-cased.
RECURSIVE underscored(_, _)
underscored(name, i) ==
    IF i > Len(name) THEN ""
    ELSE (IF /\ i > 1 /\ is_upper(CharAt(name, i))
             /\ \/ (i < Len(name) /\ is_lower(CharAt(name, i + 1)))
                \/ in_class(CharAt(name, i - 1), alphanumerics)
          THEN "_" ELSE "")
         \o CharAt(name, i) \o underscored(name, i + 1)

_to_snake_case(name) == lower(underscored(name, 1))

(***************************************************************************)
(* execution/engine.py: ExecutionEngine.  What the provider does is an     *)
(* input of the call: whether the client can be made, what the paginator   *)
(* and the direct method do, and whether the context records the result.   *)
(***************************************************************************)
\* ExecutionResult with the defaults of the dataclass; the formatting fields
\* (formatted_table, count) are left out.  data is "items" for a list and
\* "response" for anything else.
ExecutionResult(fields) ==
    fields @@ [success |-> FALSE, data |-> None, error |-> None, error_code |-> None,
               service |-> None, operation |-> None, category |-> None,
               region |-> None, truncated |-> FALSE,
               requires_confirmation |-> FALSE, confirmation_message |-> None,
               suggestions |-> <<>>]

IsResult(r) == "success" \in DOMAIN r

\* SessionManager.active_region, the default region of the configuration.
active_region == "us-east-1"

\* What the provider does during one call.
ProviderOutcome(client, pages, call, data, context) ==
    [client |-> client, pages |-> pages, call |-> call, data |-> data,
     context |-> context]

ProviderOutcomes ==
    {ProviderOutcome(TRUE, "ok", "ok", "items", TRUE),
     ProviderOutcome(TRUE, "ok", "ok", "response", TRUE),
     ProviderOutcome(TRUE, "truncated", "ok", "items", TRUE),
     ProviderOutcome(TRUE, "fail", "ok", "items", TRUE),
     ProviderOutcome(TRUE, "none", "ok", "items", TRUE),
     ProviderOutcome(TRUE, "fail", "ClientError", "items", TRUE),
     ProviderOutcome(TRUE, "ok", "ClientError", "items", TRUE),
     ProviderOutcome(TRUE, "ok", "ParamValidationError", "items", TRUE),
     ProviderOutcome(TRUE, "ok", "Exception", "items", TRUE),
     ProviderOutcome(TRUE, "ok", "ok", "items", FALSE),
     ProviderOutcome(FALSE, "ok", "ok", "items", TRUE)}

\* The provider calls a request can issue, each with whether it raised.
get_client(service, region) ==
    [call |-> "get_client", service |-> service,
     region |-> IF region # None THEN region ELSE active_region, raised |-> FALSE]
paginate(operation, parameters) ==
    [call |-> "paginate", operation |-> operation, parameters |-> parameters,
     raised |-> FALSE]
method(operation, parameters) ==
    [call |-> "method", operation |-> operation, parameters |-> parameters,
     raised |-> FALSE]
raising(provider_call) == [provider_call EXCEPT !.raised = TRUE]

\* ExecutionEngine._get_operation_suggestions: of the first 10 operations the
\* first 5 whose snake-case name starts with list_, describe_ or get_.
RECURSIVE read_suggestions(_, _, _)
read_suggestions(operations, i, found) ==
    IF i > Len(operations) \/ i > 10 \/ found >= 5 THEN <<>>
    ELSE LET snake_case == _to_snake_case(operations[i].name)
         IN  IF \E prefix \in {"list_", "describe_", "get_"} : startswith(snake_case, prefix)
             THEN <<snake_case>> \o read_suggestions(operations, i + 1, found + 1)
             ELSE read_suggestions(operations, i + 1, found)

_get_operation_suggestions(service) == read_suggestions(get_operations(service), 1, 0)

\* ExecutionEngine._build_confirmation_message
_build_confirmation_message(command, safety_decision) ==
    "Operation '" \o command.operation \o "' on " \o command.service
    \o (IF safety_decision.category = DESTRUCTIVE THEN " is DESTRUCTIVE"
        ELSE " will modify resources")
    \o (IF safety_decision.affected_resources > 1
        THEN " (" \o ToString(safety_decision.affected_resources) \o " resources affected)"
        ELSE "")
    \o (IF safety_decision.warning # None
        THEN ". Warning: " \o safety_decision.warning ELSE "")
    \o ". Set confirm=true to proceed."

\* What a request returns: the safety decision it got (if any), the provider
\* calls it issued, what the conversation context did and its result.
Returns(safety_decision, calls, execution_result) ==
    [decision |-> safety_decision, issued |-> calls, recorded |-> NotRecorded,
     result |-> execution_result]

\* Mutant of failed_result: the failure keeps the data fetched so far.
failed_result_keeps_data(command, exception) ==
    ExecutionResult([success |-> FALSE, data |-> "items", error |-> "Exception message",
                     service |-> command.service, operation |-> command.operation])

\* The except clauses of execute_command, by the exception raised.
failed_result(command, exception) ==
    CASE exception = "ClientError" ->
            ExecutionResult([success |-> FALSE, error |-> "ClientError message",
                             error_code |-> "AccessDenied",
                             service |-> command.service, operation |-> command.operation])
      [] exception = "ParamValidationError" ->
            ExecutionResult([success |-> FALSE,
                             error |-> "Parameter validation error: ParamValidationError message",
                             service |-> command.service, operation |-> command.operation])
      [] OTHER ->
            ExecutionResult([success |-> FALSE, error |-> "Exception message",
                             service |-> command.service, operation |-> command.operation])

\* The success result of execute_command.
succeeded_result(command, data, truncated) ==
    ExecutionResult([success |-> TRUE, data |-> data,
                     service |-> command.service, operation |-> command.operation,
                     category |-> command.category,
                     region |-> IF command.region # None THEN command.region
                                ELSE active_region,
                     truncated |-> truncated])

\* The try block of execute_command after the provider has answered:
\* add_resources_from_response for a list, record_query, then the success
\* result.  Both context calls are inside the try block, so an exception of
\* either is caught by `except Exception`.
record_and_succeed(safety_decision, command, calls, outcome, data, truncated) ==
    IF outcome.context
    THEN [Returns(safety_decision, calls, succeeded_result(command, data, truncated))
            EXCEPT !.recorded = "ok"]
    ELSE [Returns(safety_decision, calls, failed_result(command, "Exception"))
            EXCEPT !.recorded = "raised"]

\* The methods of a client: one per operation of the service, named in
\* snake case.  getattr(client, name) raises AttributeError for any other name.
client_methods(service) ==
    {_to_snake_case(get_operations(service)[i].name) :
        i \in 1..Len(get_operations(service))}

\* Mutant of _single_call: a direct call that raised is made once more.
_single_call_tries_again(safety_decision, command, calls, outcome) ==
    IF command.operation \notin client_methods(command.service)
    THEN Returns(safety_decision, calls, failed_result(command, "Exception"))
    ELSE IF outcome.call = "ok"
    THEN record_and_succeed(safety_decision, command,
                            calls \o <<method(command.operation, command.parameters)>>,
                            outcome, "items", FALSE)
    ELSE record_and_succeed(safety_decision, command,
                            calls \o <<raising(method(command.operation, command.parameters)),
                                       method(command.operation, command.parameters)>>,
                            outcome, "items", FALSE)

\* PaginationHandler._single_call inside the try block.
_single_call(safety_decision, command, calls, outcome) ==
    IF command.operation \notin client_methods(command.service)
    THEN Returns(safety_decision, calls, failed_result(command, "Exception"))
    ELSE IF outcome.call = "ok"
    THEN record_and_succeed(safety_decision, command,
                            calls \o <<method(command.operation, command.parameters)>>,
                            outcome, "items", FALSE)
    ELSE Returns(safety_decision,
                 calls \o <<raising(method(command.operation, command.parameters))>>,
                 failed_result(command, outcome.call))

\* PaginationHandler.execute_paginated inside the try block: the paginator if
\* the client has one, and the single direct call it falls back to when the
\* paginator raises.
execute_paginated(safety_decision, command, outcome) ==
    LET client == get_client(command.service, command.region)
        pages == paginate(command.operation, command.parameters)
    IN  IF outcome.pages = "none"
        THEN _single_call(safety_decision, command, <<client>>, outcome)
        ELSE IF outcome.pages = "fail"
        THEN _single_call(safety_decision, command, <<client, raising(pages)>>, outcome)
        ELSE record_and_succeed(safety_decision, command, <<client, pages>>, outcome,
                                "items", outcome.pages = "truncated")

\* The try block of execute_command.
call_provider(safety_decision, command, outcome) ==
    LET client == get_client(command.service, command.region)
        direct == method(command.operation, command.parameters)
    IN  IF ~outcome.client
        THEN Returns(safety_decision, <<raising(client)>>,
                     failed_result(command, "Exception"))
        ELSE IF supports_pagination(command.service, command.operation)
        THEN execute_paginated(safety_decision, command, outcome)
        ELSE IF command.operation \notin client_methods(command.service)
        THEN Returns(safety_decision, <<client>>, failed_result(command, "Exception"))
        ELSE IF outcome.call = "ok"
        THEN record_and_succeed(safety_decision, command, <<client, direct>>, outcome,
                                outcome.data, FALSE)
        ELSE Returns(safety_decision, <<client, raising(direct)>>,
                     failed_result(command, outcome.call))

\* The result of execute_command for a decision that does not allow.
denied(safety_decision, command) ==
    Returns(safety_decision, <<>>,
        ExecutionResult([success |-> FALSE, error |-> safety_decision.reason,
            service |-> command.service, operation |-> command.operation,
            category |-> safety_decision.category,
            suggestions |->
                IF safety_decision.suggested_mode # None
                THEN <<"set_safety_mode " \o safety_decision.suggested_mode>>
                ELSE <<>>]))

\* The result of execute_command for a decision that wants a confirmation
\* the caller has not given.
confirmation_required(safety_decision, command) ==
    Returns(safety_decision, <<>>,
        ExecutionResult([success |-> FALSE,
            service |-> command.service, operation |-> command.operation,
            category |-> safety_decision.category,
            requires_confirmation |-> TRUE,
            confirmation_message |->
                _build_confirmation_message(command, safety_decision)]))

\* Mutant of execute_decided: confirm=true overrides a denial.
execute_decided_confirm_overrides_denial(safety_decision, command, confirm, outcomes) ==
    IF ~IsDecision(safety_decision)
    THEN {Returns(NoDecision, <<>>, safety_decision)}
    ELSE IF ~safety_decision.allowed /\ ~confirm
    THEN {denied(safety_decision, command)}
    ELSE IF safety_decision.requires_confirmation /\ ~confirm
    THEN {confirmation_required(safety_decision, command)}
    ELSE {call_provider(safety_decision, command, outcome) : outcome \in outcomes}

\* Mutant of execute_decided: the confirmation is asked for whatever the
\* confirm flag.
execute_decided_always_asks(safety_decision, command, confirm, outcomes) ==
    IF ~IsDecision(safety_decision)
    THEN {Returns(NoDecision, <<>>, safety_decision)}
    ELSE IF ~safety_decision.allowed
    THEN {denied(safety_decision, command)}
    ELSE IF safety_decision.requires_confirmation
    THEN {confirmation_required(safety_decision, command)}
    ELSE {call_provider(safety_decision, command, outcome) : outcome \in outcomes}

\* Mutant of execute_decided: the confirmation check is left out.
execute_decided_without_confirmation(safety_decision, command, confirm, outcomes) ==
    IF ~IsDecision(safety_decision)
    THEN {Returns(NoDecision, <<>>, safety_decision)}
    ELSE IF ~safety_decision.allowed
    THEN {denied(safety_decision, command)}
    ELSE {call_provider(safety_decision, command, outcome) : outcome \in outcomes}

\* execute_command once evaluate has returned: the denial, the confirmation
\* check, then the provider.  An exception of evaluate is not caught.  The
\* value is the set of returns the provider's outcomes can produce.
execute_decided(safety_decision, command, confirm, outcomes) ==
    IF ~IsDecision(safety_decision)
    THEN {Returns(NoDecision, <<>>, safety_decision)}
    ELSE IF ~safety_decision.allowed
    THEN {denied(safety_decision, command)}
    ELSE IF safety_decision.requires_confirmation /\ ~confirm
    THEN {confirmation_required(safety_decision, command)}
    ELSE {call_provider(safety_decision, command, outcome) : outcome \in outcomes}

\* Mutant of execute_validated: the safety check takes the category the
\* command carries.
execute_validated_trusts_category(m, command, confirm, outcomes) ==
    execute_decided(
        IF is_operation_blocked(command.service, command.operation)
        THEN blocked_decision(command.service, command.operation)
        ELSE IF command.category \notin _get_allowed_categories(m)
        THEN mode_denied_decision(m, command.operation, command.category)
        ELSE counted_decision(command.service, command.operation, command.parameters,
                              command.category),
        command, confirm, outcomes)

\* execute_command after validation: the safety check.
execute_validated(m, command, confirm, outcomes) ==
    execute_decided(evaluate(m, command.service, command.operation, command.parameters),
                    command, confirm, outcomes)

\* Mutant of execute_checked: the validation result is not consulted.
execute_checked_ignores_validation(validation, m, command, confirm, outcomes) ==
    execute_validated(m, command, confirm, outcomes)

\* execute_command once validate_operation has returned.
execute_checked(validation, m, command, confirm, outcomes) ==
    IF ~validation.valid
    THEN {Returns(NoDecision, <<>>,
             ExecutionResult([success |-> FALSE,
                 error |-> join("; ", validation.errors),
                 service |-> command.service, operation |-> command.operation,
                 suggestions |-> _get_operation_suggestions(command.service)]))}
    ELSE execute_validated(m, command, confirm, outcomes)

\* ExecutionEngine.execute_command, with m the mode the safety check reads:
\* the returns the provider's outcomes can produce.
execute_command(m, command, confirm, outcomes) ==
    execute_checked(validate_operation(command.service, command.operation,
                                       command.parameters),
                    m, command, confirm, outcomes)

\* ExecutionEngine.execute_explicit builds its command from the arguments.
explicit_command(service, operation, parameters, region) ==
    StructuredCommand(service, operation, parameters, classify(service, operation),
                      region, "")

\* ConversationContext.resolve_alias: no alias has been defined.
resolve_alias(text) == text

\* The command execute_natural_language runs for a parsed query.
parsed_command(parse_result, region) ==
    IF region # None THEN [parse_result.command EXCEPT !.region = region]
    ELSE parse_result.command

(***************************************************************************)
(* The requests a caller makes of the engine.                              *)
(***************************************************************************)
Text(s) == PyStr(s)

\* Arguments of execute_explicit: <<service, operation, parameters, region>>.
ExplicitCalls ==
    {<<"s3", "list_buckets", EmptyParameters, None>>,
     <<"S3", "List_Buckets", EmptyParameters, None>>,
     <<"ec2", "describe_instances", EmptyParameters, None>>,
     <<"iam", "list_roles", EmptyParameters, "us-west-2">>,
     <<"s3", "list_buckets", "InstanceIds" :> PyInt(5), None>>,
     <<"s3", "put_object", ("Bucket" :> Text("my-bucket")) @@ ("Key" :> Text("k")), None>>,
     <<"s3", "delete_bucket", "Bucket" :> Text("my-bucket"), None>>,
     <<"s3", "delete_bucket", EmptyParameters, None>>,
     <<"s3", "delete_objects",
       ("Bucket" :> Text("my-bucket")) @@ ("Delete" :> PyDict("Objects" :> IdList(MaxBulk))),
       None>>,
     <<"ec2", "terminate_instances", "InstanceIds" :> IdList(1), None>>,
     <<"ec2", "terminate_instances",
       "InstanceIds" :> IdList(max_resources_per_operation + 1), None>>,
     <<"EC2", "Terminate_Instances", "InstanceIds" :> Text("i-0123456789abcdef0"), None>>,
     <<"ec2", "authorize_security_group_ingress", "GroupId" :> Text("sg-1"), None>>,
     <<"lambda", "invoke", "FunctionName" :> Text("my_func"), None>>,
     <<"cloudtrail", "delete_trail", "Name" :> Text("audit"), None>>,
     <<"CloudTrail", "Delete_Trail", "Name" :> Text("audit"), None>>,
     <<"cloudtrail", "delete__trail", "Name" :> Text("audit"), None>>,
     <<"cloudtrail", "stop_logging", "Name" :> Text("audit"), None>>,
     <<"organizations", "leave_organization", EmptyParameters, None>>,
     <<"kms", "schedule_key_deletion", "KeyId" :> Text("key-1"), None>>,
     <<"s3", "put_bucket_policy",
       ("Bucket" :> Text("my-bucket")) @@ ("Policy" :> Text("{}")), None>>,
     <<"iam", "DeleteAccountAlias", "AccountAlias" :> Text("prod"), None>>,
     <<"nosuchservice", "list_things", EmptyParameters, None>>,
     <<"s3", "frobnicate", EmptyParameters, None>>}

\* Commands handed to execute_command whose category field is not the
\* category of the operation.
MislabelledCommands ==
    {StructuredCommand("ec2", "terminate_instances", "InstanceIds" :> IdList(1),
                       READ, None, ""),
     StructuredCommand("s3", "list_buckets", EmptyParameters, DESTRUCTIVE, None, ""),
     StructuredCommand("cloudtrail", "delete_trail", "Name" :> Text("audit"),
                       READ, None, "")}

\* Queries handed to execute_natural_language: a phrase of each intent about
\* each of a few resources, and queries that do not parse.
EngineQueryHeads ==
    {"list ", "show me all ", "describe ", "get ", "create a new ", "delete ",
     "terminate ", "update ", "stop ", "start ", "run "}

EngineQueryTopics ==
    {"s3 buckets", "s3 objects in bucket my-bucket", "ec2 instances",
     "ec2 instance i-0123456789abcdef0", "lambda functions", "iam roles",
     "cloudtrail trails"}

Queries ==
    {h \o t : h \in EngineQueryHeads, t \in EngineQueryTopics}
    \cup {"hello", "", "delete everything"}

\* The caller of execute_explicit.
call_execute_explicit ==
    /\ pc = "idle"
    /\ \E args \in ExplicitCalls, confirm \in BOOLEAN :
          req' = [via |-> "execute_explicit", service |-> args[1],
                  operation |-> args[2], parameters |-> args[3],
                  region |-> args[4], confirm |-> confirm,
                  resubmitted |-> FALSE]
    /\ pc' = "called"
    /\ UNCHANGED <<mode, active_profile, environment_vars, current_command, decision, issued, recorded,
                   result, probe>>

\* The caller of execute_command.
call_execute_command ==
    /\ pc = "idle"
    /\ \E c \in MislabelledCommands, confirm \in BOOLEAN :
          req' = [via |-> "execute_command", command |-> c, confirm |-> confirm,
                  resubmitted |-> FALSE]
    /\ pc' = "called"
    /\ UNCHANGED <<mode, active_profile, environment_vars, current_command, decision, issued, recorded,
                   result, probe>>

\* The caller of execute_natural_language.
call_execute_natural_language ==
    /\ pc = "idle"
    /\ \E query \in Queries, confirm \in BOOLEAN :
          req' = [via |-> "execute_natural_language", query |-> query,
                  region |-> IF confirm THEN "eu-west-1" ELSE None,
                  confirm |-> confirm,
                  resubmitted |-> FALSE]
    /\ pc' = "called"
    /\ UNCHANGED <<mode, active_profile, environment_vars, current_command, decision, issued, recorded,
                   result, probe>>

\* What the caller is told when command c was run with the return value r.
Answer(c, m, r) ==
    /\ current_command' = c
    /\ decision' = IF IsDecision(r.decision) THEN [mode |-> m, out |-> r.decision]
                   ELSE NoDecision
    /\ issued' = r.issued
    /\ recorded' = r.recorded
    /\ result' = r.result
    /\ pc' = "done"

\* The engine runs command c and answers.
run(c) ==
    \E r \in execute_command(mode, c, req.confirm, ProviderOutcomes) :
        Answer(c, mode, r)

\* ExecutionEngine.execute_command
run_execute_command ==
    /\ pc = "called" /\ req.via = "execute_command"
    /\ run(req.command)
    /\ UNCHANGED <<mode, active_profile, environment_vars, req, probe>>

\* ExecutionEngine.execute_explicit
run_execute_explicit ==
    /\ pc = "called" /\ req.via = "execute_explicit"
    /\ run(explicit_command(req.service, req.operation, req.parameters, req.region))
    /\ UNCHANGED <<mode, active_profile, environment_vars, req, probe>>

\* A request that ended before it had a command.
AnswerWithoutCommand(execution_result) ==
    /\ current_command' = NoCommand
    /\ decision' = NoDecision
    /\ issued' = <<>>
    /\ recorded' = NotRecorded
    /\ result' = execution_result
    /\ pc' = "done"

\* execute_natural_language once the classifier has returned.
run_parsed(parse_result) ==
    IF ~parse_result.success
    THEN AnswerWithoutCommand(
             ExecutionResult([success |-> FALSE, error |-> parse_result.error,
                              suggestions |-> parse_result.suggestions]))
    ELSE run(parsed_command(parse_result, req.region))

\* ExecutionEngine.execute_natural_language; list_profiles() is the one
\* profile of the machine.
run_execute_natural_language ==
    /\ pc = "called" /\ req.via = "execute_natural_language"
    /\ IF active_profile = None
       THEN AnswerWithoutCommand(
                ExecutionResult([success |-> FALSE,
                    error |-> "No AWS profile selected. Please select a profile first.",
                    suggestions |-> <<"select_profile default">>]))
       ELSE run_parsed(IntentClassifier_classify(resolve_alias(req.query)))
    /\ UNCHANGED <<mode, active_profile, environment_vars, req, probe>>

\* The caller has its answer; the engine keeps nothing of the call.
return ==
    /\ pc = "done"
    /\ pc' = "idle"
    /\ req' = NoRequest
    /\ current_command' = NoCommand
    /\ decision' = NoDecision
    /\ issued' = <<>>
    /\ recorded' = NotRecorded
    /\ result' = NoResult
    /\ UNCHANGED <<mode, active_profile, environment_vars, probe>>

\* The caller was asked to confirm and submits the same request again with
\* confirm=true.
resubmit ==
    /\ pc = "done"
    /\ IsResult(result) /\ result.requires_confirmation
    /\ pc' = "called"
    /\ req' = [req EXCEPT !.confirm = TRUE, !.resubmitted = TRUE]
    /\ current_command' = NoCommand
    /\ decision' = NoDecision
    /\ issued' = <<>>
    /\ recorded' = NotRecorded
    /\ result' = NoResult
    /\ UNCHANGED <<mode, active_profile, environment_vars, probe>>

\* SessionManager.select_profile: the profile becomes active if its
\* credentials validate, else the call raises and nothing changes.
select_profile(profile) ==
    /\ pc = "idle"
    /\ \E valid \in BOOLEAN :
          active_profile' = IF valid THEN profile ELSE active_profile
    /\ UNCHANGED <<mode, pc, call_vars, environment_vars, probe>>

Next ==
    \/ \E m \in SafetyMode : set_mode(m)
    \/ select_profile("default")
    \/ call_execute_explicit
    \/ call_execute_command
    \/ call_execute_natural_language
    \/ run_execute_explicit
    \/ run_execute_command
    \/ run_execute_natural_language
    \/ resubmit
    \/ return

Spec == Init /\ [][Next]_vars

(***************************************************************************)
(* safety/validator.py: SafetyEnforcer.enforce, and the errors it raises.  *)
(***************************************************************************)
\* The details of a SafetyError: of the four keyword arguments the ones that
\* are truthy.
safety_error_details(operation, category, current_mode, suggested_mode) ==
    [k \in {"operation"} \cup (IF category # None THEN {"category"} ELSE {})
            \cup (IF current_mode # None THEN {"current_mode"} ELSE {})
            \cup (IF suggested_mode # None THEN {"suggested_mode"} ELSE {}) |->
        CASE k = "operation" -> operation
          [] k = "category" -> category
          [] k = "current_mode" -> current_mode
          [] OTHER -> suggested_mode]

\* raise SafetyError(message, operation, category, current_mode, suggested_mode)
SafetyError(message, operation, category, current_mode, suggested_mode) ==
    [raised |-> "SafetyError", message |-> message,
     details |-> safety_error_details(operation, category, current_mode,
                                      suggested_mode)]

\* raise OperationBlockedError(operation, reason)
OperationBlockedError(operation, reason) ==
    [raised |-> "OperationBlockedError",
     message |-> "Operation '" \o operation \o "' is blocked: " \o reason,
     details |-> safety_error_details(operation, BLOCKED, None, None)]

\* enforce once evaluate has returned or raised.
enforce_decision(decision_, m, service, operation) ==
    IF ~IsDecision(decision_) THEN decision_
    ELSE IF decision_.allowed THEN decision_
    ELSE IF decision_.category = BLOCKED
    THEN OperationBlockedError(service \o "." \o operation, decision_.reason)
    ELSE SafetyError(decision_.reason, service \o "." \o operation,
                     decision_.category, m, decision_.suggested_mode)

\* Mutant of enforce: a denial is returned like any other decision.
enforce_returns_denials(m, service, operation, parameters) ==
    evaluate(m, service, operation, parameters)

\* SafetyEnforcer.enforce, with m the value of self.config.mode.
enforce(m, service, operation, parameters) ==
    enforce_decision(evaluate(m, service, operation, parameters), m, service, operation)

\* Parameter maps of the calls of enforce.
EnforceParameterMaps ==
    {EmptyParameters,
     "InstanceIds" :> IdList(max_resources_per_operation),
     "InstanceIds" :> IdList(max_resources_per_operation + 1),
     ("Bucket" :> PyStr("my-bucket")) @@ ("Delete" :> PyDict("Objects" :> IdList(MaxBulk))),
     "InstanceIds" :> PyInt(5)}

\* SafetyEnforcer.enforce(service, operation, parameters)
enforce_call ==
    /\ probe.fn = "enforce" /\ ~probe.done
    /\ probe' = [fn |-> "enforce", done |-> TRUE,
                 service |-> probe.service, operation |-> probe.operation,
                 parameters |-> probe.parameters, mode |-> mode,
                 out |-> enforce(mode, probe.service, probe.operation,
                                 probe.parameters)]
    /\ UNCHANGED <<mode, engine_vars>>

InitEnforce ==
    /\ mode \in SafetyMode
    /\ InitEngine
    /\ probe \in {[fn |-> "enforce", done |-> FALSE, service |-> p[1],
                   operation |-> p[2], parameters |-> parameters] :
                    p \in EnforcerInputs, parameters \in EnforceParameterMaps}

NextEnforce ==
    \/ \E m \in SafetyMode : set_mode(m)
    \/ enforce_call

SpecEnforce == InitEnforce /\ [][NextEnforce]_vars

(***************************************************************************)
(* execution/pagination.py: PaginationHandler.  A response is the ordered  *)
(* dict of the provider, a tuple of <<key, value>>; a client says whether  *)
(* it has a paginator for the operation, the pages the paginator yields,   *)
(* whether it raises after the last of them, and what the direct method    *)
(* answers.                                                                *)
(***************************************************************************)
pagination_max_pages == 100
pagination_max_items == 1000

\* PaginationHandler.__init__: a ceiling that is None or 0 is the configured one.
PaginationHandler(max_pages, max_items) ==
    [max_pages |-> IF max_pages # 0 THEN max_pages ELSE pagination_max_pages,
     max_items |-> IF max_items # 0 THEN max_items ELSE pagination_max_items]

\* The response without its ResponseMetadata.
RECURSIVE without_metadata(_)
without_metadata(response) ==
    IF Len(response) = 0 THEN <<>>
    ELSE (IF Head(response)[1] = "ResponseMetadata" THEN <<>> ELSE <<Head(response)>>)
         \o without_metadata(Tail(response))

\* The positions of a response whose key is the given one, or whose value is
\* a list.
keyed(response, key) == {i \in 1..Len(response) : response[i][1] = key}
lists(response) == {i \in 1..Len(response) : response[i][2].t = "list"}
first(positions) == CHOOSE i \in positions : \A j \in positions : i <= j

\* _extract_results on a response without metadata.
extract_from(response, result_key) ==
    IF result_key # None /\ keyed(response, result_key) # {}
    THEN IF response[first(keyed(response, result_key))][2].t = "list"
         THEN response[first(keyed(response, result_key))][2].v
         ELSE <<response[first(keyed(response, result_key))][2]>>
    ELSE IF lists(response) # {} THEN response[first(lists(response))][2].v
    ELSE IF Len(response) > 0 THEN <<[response |-> response]>>
    ELSE <<>>

\* PaginationHandler._extract_results
_extract_results(response, result_key) ==
    extract_from(without_metadata(response), result_key)

\* What a call of the handler yields: the pair it returns, or the exception
\* of the direct method.
Paginated(results, truncated) == [results |-> results, truncated |-> truncated]
ProviderRaised == [raised |-> "ClientError"]

\* PaginationHandler._single_call
PaginationHandler_single_call(client, result_key) ==
    IF client.single_raises THEN ProviderRaised
    ELSE Paginated(_extract_results(client.single, result_key), FALSE)

\* results[: max_items]
take(results, n) == SubSeq(results, 1, IF Len(results) < n THEN Len(results) ELSE n)

RECURSIVE paginate_from(_, _, _, _, _)
RECURSIVE paginate_step(_, _, _, _, _)

\* Mutant of paginate_step: the page that reaches the ceiling is kept whole.
paginate_step_keeps_page(self, client, result_key, page_num, results) ==
    IF Len(results) >= self.max_items
    THEN Paginated(results, TRUE)
    ELSE paginate_from(self, client, result_key, page_num + 1, results)

\* Mutant of paginate_step: the item ceiling cuts the results without setting
\* truncated.
paginate_step_unflagged(self, client, result_key, page_num, results) ==
    IF Len(results) >= self.max_items
    THEN Paginated(take(results, self.max_items), FALSE)
    ELSE paginate_from(self, client, result_key, page_num + 1, results)

\* The rest of the loop body once the page's results are appended.
paginate_step(self, client, result_key, page_num, results) ==
    IF Len(results) >= self.max_items
    THEN Paginated(take(results, self.max_items), TRUE)
    ELSE paginate_from(self, client, result_key, page_num + 1, results)

\* Mutant of paginate_from: when the paginator raises, the pages read so far
\* are returned as a truncated result.
paginate_from_keeps_partial(self, client, result_key, page_num, results) ==
    IF page_num >= Len(client.pages)
    THEN Paginated(results, client.pages_raise)
    ELSE IF page_num >= self.max_pages THEN Paginated(results, TRUE)
    ELSE paginate_step(self, client, result_key, page_num,
                       results \o _extract_results(client.pages[page_num + 1], result_key))

\* The loop of _paginate from the page of index page_num, with the results
\* accumulated so far; item_count is their number.
paginate_from(self, client, result_key, page_num, results) ==
    IF page_num >= Len(client.pages)
    THEN IF client.pages_raise
         THEN PaginationHandler_single_call(client, result_key)
         ELSE Paginated(results, FALSE)
    ELSE IF page_num >= self.max_pages THEN Paginated(results, TRUE)
    ELSE paginate_step(self, client, result_key, page_num,
                       results \o _extract_results(client.pages[page_num + 1], result_key))


\* PaginationHandler._supports_pagination: client.get_paginator does not raise.
_supports_pagination(client) == client.paginator

\* PaginationHandler._paginate
_paginate(self, client, result_key) ==
    paginate_from(self, client, result_key, 0, <<>>)

\* PaginationHandler.execute_paginated
PaginationHandler_execute_paginated(self, client, result_key) ==
    IF _supports_pagination(client) THEN _paginate(self, client, result_key)
    ELSE PaginationHandler_single_call(client, result_key)

(***************************************************************************)
(* Direct calls of PaginationHandler.execute_paginated.                    *)
(***************************************************************************)
\* The most pages a paginator yields, the most items of a page, and the
\* largest ceilings of the handlers.
MaxPageCount == 3
MaxPageItems == 2
MaxCeiling == 4

\* The items first..last of the provider.
Items(first_id, last_id) == [i \in 1..(last_id - first_id + 1) |-> [id |-> first_id + i - 1]]

\* A page, or the answer of the direct method, holding the given items.
Response(items) ==
    <<<<"ResponseMetadata", PyDict(EmptyParameters)>>, <<"IsTruncated", PyStr("true")>>,
      <<"Contents", PyList(items)>>>>

\* The pages with the given sizes, their items numbered from next_id.
RECURSIVE PagesOf(_, _)
PagesOf(sizes, next_id) ==
    IF Len(sizes) = 0 THEN <<>>
    ELSE <<Response(Items(next_id, next_id + Head(sizes) - 1))>>
         \o PagesOf(Tail(sizes), next_id + Head(sizes))

PageSizes ==
    UNION {[1..n -> 0..MaxPageItems] : n \in 0..MaxPageCount}

\* A client: its paginator, and a direct method that answers with more items
\* than any ceiling or raises.
Client(paginator, sizes, pages_raise, single_raises) ==
    [paginator |-> paginator, pages |-> PagesOf(sizes, 1), pages_raise |-> pages_raise,
     single |-> Response(Items(1, MaxCeiling + 1)), single_raises |-> single_raises]

PaginationInputs ==
    {[max_pages |-> max_pages, max_items |-> max_items, result_key |-> result_key,
      client |-> Client(paginator, sizes, pages_raise, single_raises)] :
        max_pages \in 0..MaxPageCount, max_items \in 0..MaxCeiling,
        result_key \in {None, "Contents", "IsTruncated"},
        paginator \in BOOLEAN, sizes \in PageSizes,
        pages_raise \in BOOLEAN, single_raises \in BOOLEAN}
    \cup {[max_pages |-> 0, max_items |-> 100, result_key |-> "Contents",
            client |-> Client(TRUE, <<40, 40, 40>>, FALSE, FALSE)]}

\* PaginationHandler(max_pages, max_items).execute_paginated(client, operation,
\* parameters, result_key)
execute_paginated_call ==
    /\ probe.fn = "execute_paginated" /\ ~probe.done
    /\ probe' = [probe EXCEPT !.done = TRUE] @@
                 [self |-> PaginationHandler(probe.max_pages, probe.max_items),
                  out |-> PaginationHandler_execute_paginated(
                              PaginationHandler(probe.max_pages, probe.max_items),
                              probe.client, probe.result_key)]
    /\ UNCHANGED <<mode, engine_vars>>

InitPagination ==
    /\ mode = READ_ONLY
    /\ InitEngine
    /\ probe \in {[fn |-> "execute_paginated", done |-> FALSE] @@ input :
                    input \in PaginationInputs}

NextPagination == execute_paginated_call

SpecPagination == InitPagination /\ [][NextPagination]_vars

(***************************************************************************)
(* execution/errors.py: the error table and ErrorHandler.                  *)
(***************************************************************************)
\* ErrorInfo; retry_after None is 0, which the code does not tell apart
\* (`if retry_after:`).
ErrorInfo(category, suggestion, recoverable, retry_after) ==
    [category |-> category, suggestion |-> suggestion, recoverable |-> recoverable,
     retry_after |-> retry_after]

AWS_ERROR_MAPPINGS ==
    "UnauthorizedAccess" :> ErrorInfo("auth", "Check your AWS credentials and IAM permissions",
        FALSE, 0) @@
    "AccessDenied" :> ErrorInfo("auth", "You don't have permission for this operation. Check IAM policies.",
        FALSE, 0) @@
    "AccessDeniedException" :> ErrorInfo("auth", "You don't have permission for this operation. Check IAM policies.",
        FALSE, 0) @@
    "ExpiredToken" :> ErrorInfo("auth", "Your credentials have expired. Run 'aws sso login' or refresh your credentials.",
        TRUE, 0) @@
    "ExpiredTokenException" :> ErrorInfo("auth", "Your credentials have expired. Run 'aws sso login' or refresh your credentials.",
        TRUE, 0) @@
    "InvalidIdentityToken" :> ErrorInfo("auth", "The identity token is invalid. Try refreshing your credentials.",
        TRUE, 0) @@
    "SignatureDoesNotMatch" :> ErrorInfo("auth", "Request signature doesn't match. Check your credentials and clock sync.",
        FALSE, 0) @@
    "ResourceNotFoundException" :> ErrorInfo("resource", "The resource doesn't exist. Verify the identifier is correct.",
        FALSE, 0) @@
    "ResourceNotFoundFault" :> ErrorInfo("resource", "The resource doesn't exist. Verify the identifier is correct.",
        FALSE, 0) @@
    "NoSuchBucket" :> ErrorInfo("resource", "The S3 bucket doesn't exist. Check the bucket name.",
        FALSE, 0) @@
    "NoSuchKey" :> ErrorInfo("resource", "The S3 object doesn't exist. Check the key path.",
        FALSE, 0) @@
    "ResourceAlreadyExistsException" :> ErrorInfo("resource", "A resource with this name already exists. Use a different name.",
        FALSE, 0) @@
    "BucketAlreadyExists" :> ErrorInfo("resource", "This bucket name is already taken globally. Try a different name.",
        FALSE, 0) @@
    "BucketAlreadyOwnedByYou" :> ErrorInfo("resource", "You already own this bucket. No action needed.",
        FALSE, 0) @@
    "ValidationException" :> ErrorInfo("validation", "Request validation failed. Check parameter types and formats.",
        FALSE, 0) @@
    "ValidationError" :> ErrorInfo("validation", "Request validation failed. Check parameter types and formats.",
        FALSE, 0) @@
    "InvalidParameterValue" :> ErrorInfo("validation", "One or more parameters have invalid values.",
        FALSE, 0) @@
    "InvalidParameterException" :> ErrorInfo("validation", "One or more parameters have invalid values.",
        FALSE, 0) @@
    "MissingParameter" :> ErrorInfo("validation", "A required parameter is missing.",
        FALSE, 0) @@
    "MalformedQueryString" :> ErrorInfo("validation", "The query string is malformed. Check the request format.",
        FALSE, 0) @@
    "ThrottlingException" :> ErrorInfo("rate_limit", "Request was throttled. Wait and retry.",
        TRUE, 5) @@
    "Throttling" :> ErrorInfo("rate_limit", "Request was throttled. Wait and retry.",
        TRUE, 5) @@
    "RequestLimitExceeded" :> ErrorInfo("rate_limit", "Request limit exceeded. Reduce request frequency.",
        TRUE, 10) @@
    "TooManyRequestsException" :> ErrorInfo("rate_limit", "Too many requests. Wait and retry.",
        TRUE, 5) @@
    "ProvisionedThroughputExceededException" :> ErrorInfo("rate_limit", "DynamoDB throughput exceeded. Consider increasing capacity.",
        TRUE, 1) @@
    "ServiceUnavailable" :> ErrorInfo("service", "AWS service is temporarily unavailable. Retry later.",
        TRUE, 30) @@
    "ServiceException" :> ErrorInfo("service", "AWS service error. Retry later.",
        TRUE, 30) @@
    "InternalError" :> ErrorInfo("service", "AWS internal error. Retry later.",
        TRUE, 30) @@
    "InternalServerError" :> ErrorInfo("service", "AWS internal error. Retry later.",
        TRUE, 30) @@
    "LimitExceededException" :> ErrorInfo("limit", "Service limit exceeded. Request a limit increase or delete unused resources.",
        FALSE, 0) @@
    "QuotaExceededException" :> ErrorInfo("limit", "Service quota exceeded. Request a quota increase.",
        FALSE, 0) @@
    "ConditionalCheckFailedException" :> ErrorInfo("conflict", "A condition check failed. The resource may have been modified.",
        TRUE, 0) @@
    "ResourceInUseException" :> ErrorInfo("conflict", "The resource is currently in use. Wait and retry.",
        TRUE, 10) @@
    "OptimisticLockException" :> ErrorInfo("conflict", "Resource was modified by another process. Refresh and retry.",
        TRUE, 0)

\* The keys ExecutionError.__init__ puts in details: recoverable always, the
\* others when their value is truthy.
execution_error_keys(service, operation, aws_error_code, retry_after) ==
    {"recoverable"}
    \cup (IF service \notin {None, ""} THEN {"service"} ELSE {})
    \cup (IF operation \notin {None, ""} THEN {"operation"} ELSE {})
    \cup (IF aws_error_code \notin {None, ""} THEN {"aws_error_code"} ELSE {})
    \cup (IF retry_after # 0 THEN {"retry_after_seconds"} ELSE {})

\* ExecutionError
ExecutionError(message, service, operation, aws_error_code, recoverable, retry_after) ==
    [raised |-> "ExecutionError", message |-> message,
     details |->
        [k \in execution_error_keys(service, operation, aws_error_code, retry_after) |->
            CASE k = "recoverable" -> recoverable
              [] k = "service" -> service
              [] k = "operation" -> operation
              [] k = "aws_error_code" -> aws_error_code
              [] k = "retry_after_seconds" -> retry_after]]

\* A botocore ClientError: the "Error" entry of its response, which may lack
\* "Code" or "Message", and the text str(error) gives.
ClientError(error_entry, text) == [response |-> [Error |-> error_entry], text |-> text]

\* dict.get(key, default)
get(dict, key, default) == IF key \in DOMAIN dict THEN dict[key] ELSE default

\* handle_client_error once the code and the message are read.
handle_code(error_code, error_message, service, operation) ==
    IF error_code \in DOMAIN AWS_ERROR_MAPPINGS
    THEN ExecutionError(error_message \o ". " \o AWS_ERROR_MAPPINGS[error_code].suggestion,
                        service, operation, error_code,
                        AWS_ERROR_MAPPINGS[error_code].recoverable,
                        AWS_ERROR_MAPPINGS[error_code].retry_after)
    ELSE ExecutionError(error_message, service, operation, error_code, FALSE, 0)

\* Mutant of handle_client_error: the table is not consulted.
handle_client_error_without_table(error, service, operation) ==
    ExecutionError(get(error.response.Error, "Message", error.text), service, operation,
                   get(error.response.Error, "Code", "Unknown"), FALSE, 0)

\* ErrorHandler.handle_client_error
handle_client_error(error, service, operation) ==
    handle_code(get(error.response.Error, "Code", "Unknown"),
                get(error.response.Error, "Message", error.text),
                service, operation)

\* ErrorHandler.handle_param_validation_error
handle_param_validation_error(text, service, operation) ==
    ExecutionError("Parameter validation error: " \o text, service, operation, None, FALSE, 0)

\* ErrorHandler.should_retry
should_retry(error_code) ==
    IF error_code \in DOMAIN AWS_ERROR_MAPPINGS
    THEN AWS_ERROR_MAPPINGS[error_code].recoverable ELSE FALSE

\* ErrorHandler.get_retry_delay
get_retry_delay(error_code) ==
    IF error_code \in DOMAIN AWS_ERROR_MAPPINGS /\ AWS_ERROR_MAPPINGS[error_code].retry_after # 0
    THEN AWS_ERROR_MAPPINGS[error_code].retry_after ELSE 5

(***************************************************************************)
(* Direct calls of ErrorHandler.handle_client_error.                       *)
(***************************************************************************)
\* Codes the provider sends that the table does not hold.
UnlistedCodes == {"Unknown", "DryRunOperation", "accessdenied", "InvalidInstanceID.NotFound"}

\* The "Error" entries of the responses: with and without a code, with and
\* without a message.
ErrorEntries ==
    {[Code |-> code, Message |-> "provider message"] :
        code \in DOMAIN AWS_ERROR_MAPPINGS \cup UnlistedCodes}
    \cup {[Code |-> code] : code \in DOMAIN AWS_ERROR_MAPPINGS \cup UnlistedCodes}
    \cup {[Message |-> "provider message"]}
    \cup {[none \in {} |-> None]}

\* ExecutionResult.to_dict
to_dict(self) ==
    LET keys == {"status"}
                \cup (IF self.success
                      THEN (IF self.data # None THEN {"data"} ELSE {})
                           \cup (IF self.truncated THEN {"truncated"} ELSE {})
                      ELSE {"error"}
                           \cup (IF self.error_code \notin {None, ""} THEN {"error_code"} ELSE {})
                           \cup (IF self.suggestions # <<>> THEN {"suggestions"} ELSE {}))
                \cup {k \in {"service", "operation", "category"} : self[k] \notin {None, ""}}
                \cup (IF self.requires_confirmation THEN {"confirmation_message"} ELSE {})
    IN  [k \in keys |->
            IF k = "status"
            THEN (IF self.requires_confirmation THEN "confirmation_required"
                  ELSE IF self.success THEN "success" ELSE "error")
            ELSE self[k]]

\* The except ClientError clause of execute_command: the normalized error, and
\* the result built from it.
client_error_result(error, service, operation) ==
    LET exec_error == handle_client_error(error, service, operation)
    IN  ExecutionResult([success |-> FALSE, error |-> exec_error.message,
                         error_code |-> get(exec_error.details, "aws_error_code", None),
                         service |-> service, operation |-> operation])

\* execute_command, where the provider call raises the ClientError.
execute_command_fails_call ==
    /\ probe.fn = "execute_command" /\ ~probe.done
    /\ probe' = [probe EXCEPT !.done = TRUE] @@
                 [out |-> client_error_result(probe.error, probe.service, probe.operation)]
    /\ UNCHANGED <<mode, engine_vars>>

handle_client_error_call ==
    /\ probe.fn = "handle_client_error" /\ ~probe.done
    /\ probe' = [probe EXCEPT !.done = TRUE] @@
                 [out |-> handle_client_error(probe.error, probe.service, probe.operation)]
    /\ UNCHANGED <<mode, engine_vars>>

InitErrors ==
    /\ mode = READ_ONLY
    /\ InitEngine
    /\ probe \in {[fn |-> "handle_client_error", done |-> FALSE,
                    error |-> ClientError(entry, "An error occurred"),
                    service |-> service, operation |-> operation] :
                        entry \in ErrorEntries, service \in {None, "s3"},
                        operation \in {None, "list_buckets"}}
                 \cup {[fn |-> "execute_command", done |-> FALSE,
                         error |-> ClientError(entry, "An error occurred"),
                         service |-> "s3", operation |-> "list_buckets"] :
                            entry \in ErrorEntries}

NextErrors ==
    \/ handle_client_error_call
    \/ execute_command_fails_call

SpecErrors == InitErrors /\ [][NextErrors]_vars

(***************************************************************************)
(* Direct calls of ServiceModelRegistry.validate_operation.                *)
(***************************************************************************)
\* The "shapes" table of service-2.json for the members of the catalog: the
\* type of the shape each member refers to.  get_input_shape reads this table
\* for the input shape only; get_parameter_type does not follow a member's
\* reference into it.
shapes ==
    [name \in {"Bucket", "Prefix", "Key", "Policy", "GroupId", "CidrIp", "Marker",
               "FunctionName", "PathPrefix", "RoleName", "AccountAlias", "Name",
               "KeyId"} |-> [type |-> "string"]]
    @@ [name \in {"MaxKeys", "MaxResults", "MaxItems", "PendingWindowInDays"} |->
           [type |-> "integer"]]
    @@ [name \in {"InstanceIds", "Filters", "FlowLogIds", "trailNameList"} |->
           [type |-> "list"]]
    @@ [name \in {"Body", "Payload"} |-> [type |-> "blob"]]
    @@ [name \in {"DryRun"} |-> [type |-> "boolean"]]
    @@ [name \in {"Delete"} |-> [type |-> "structure"]]

\* Arguments of validate_operation.
ValidatedServices == {"s3", "S3", "ec2", "kms", "nosuchservice"}

ValidatedOperations ==
    {"list_buckets", "list_objects_v2", "ListObjectsV2", "put_object", "delete_objects",
     "terminate_instances", "describe_instances", "schedule_key_deletion", "frobnicate"}

ValidatedParameters ==
    {EmptyParameters,
     "Bucket" :> PyStr("my-bucket"),
     ("Bucket" :> PyStr("my-bucket")) @@ ("MaxKeys" :> PyInt(5)),
     ("Bucket" :> PyStr("my-bucket")) @@ ("MaxKeys" :> PyStr("not_an_int")),
     ("Bucket" :> PyStr("my-bucket")) @@ ("Key" :> PyStr("k")) @@ ("Colour" :> PyStr("red")),
     "Key" :> PyInt(5),
     "MaxKeys" :> PyStr("not_an_int"),
     "InstanceIds" :> IdList(2),
     "InstanceIds" :> PyStr("i-0123456789abcdef0"),
     ("InstanceIds" :> IdList(1)) @@ ("DryRun" :> PyStr("yes")),
     ("KeyId" :> PyStr("key-1")) @@ ("PendingWindowInDays" :> PyInt(7)),
     "Colour" :> PyStr("red")}

validate_operation_call ==
    /\ probe.fn = "validate_operation" /\ ~probe.done
    /\ probe' = [probe EXCEPT !.done = TRUE] @@
                 [out |-> validate_operation(probe.service, probe.operation,
                                             probe.parameters)]
    /\ UNCHANGED <<mode, engine_vars>>

InitRegistry ==
    /\ mode = READ_ONLY
    /\ InitEngine
    /\ probe \in {[fn |-> "validate_operation", done |-> FALSE, service |-> service,
                    operation |-> operation, parameters |-> parameters] :
                        service \in ValidatedServices, operation \in ValidatedOperations,
                        parameters \in ValidatedParameters}

NextRegistry == validate_operation_call

SpecRegistry == InitRegistry /\ [][NextRegistry]_vars

(***************************************************************************)
(* safety/validator.py, statement by statement: every read of              *)
(* self.config.mode that enforce and the evaluate it calls make.  The tool *)
(* handlers of server.py are coroutines of one event loop, and neither     *)
(* evaluate nor enforce awaits, so the handler that evaluates keeps the    *)
(* loop until it returns.  probe holds the locals of the evaluation in     *)
(* flight: where it is (at), the category, the allowed categories, the     *)
(* decision, and the mode values it has read so far (reads).               *)
(***************************************************************************)
SteppedInputs ==
    {<<"s3", "list_buckets">>, <<"s3", "put_object">>, <<"ec2", "terminate_instances">>,
     <<"cloudtrail", "delete_trail">>, <<"lambda", "invoke">>}

SteppedParameterMaps ==
    {EmptyParameters, "InstanceIds" :> IdList(max_resources_per_operation + 1),
     "InstanceIds" :> PyInt(5)}

\* Whether an evaluation holds the event loop.
evaluating == probe.fn = "enforce.steps" /\ ~probe.done

\* A handler calls enforce(service, operation, parameters).
enforce_begins ==
    /\ probe.done
    /\ \E p \in SteppedInputs, parameters \in SteppedParameterMaps :
          probe' = [fn |-> "enforce.steps", done |-> FALSE, at |-> "denylist",
                    service |-> p[1], operation |-> p[2], parameters |-> parameters,
                    category |-> None, allowed_categories |-> {}, decision |-> NoDecision,
                    reads |-> <<>>]
    /\ UNCHANGED <<mode, engine_vars>>

\* evaluate, steps 1 and 2: the denylist, then classify.
evaluate_denylist ==
    /\ evaluating /\ probe.at = "denylist"
    /\ probe' = IF is_operation_blocked(probe.service, probe.operation)
                THEN [probe EXCEPT !.at = "returned",
                         !.decision = blocked_decision(probe.service, probe.operation)]
                ELSE [probe EXCEPT !.at = "is_read_only",
                         !.category = classify(probe.service, probe.operation)]
    /\ UNCHANGED <<mode, engine_vars>>

\* _get_allowed_categories: one comparison of self.config.mode per branch of
\* the if chain.
_get_allowed_categories_reads ==
    /\ evaluating /\ probe.at \in {"is_read_only", "is_standard", "is_unrestricted"}
    /\ probe' =
          [probe EXCEPT
             !.reads = @ \o <<mode>>,
             !.allowed_categories =
                 IF probe.at = "is_read_only" /\ mode = READ_ONLY THEN {READ}
                 ELSE IF probe.at = "is_standard" /\ mode = STANDARD
                 THEN {READ, WRITE, DESTRUCTIVE}
                 ELSE IF probe.at = "is_unrestricted" /\ mode = UNRESTRICTED
                 THEN {READ, WRITE, DESTRUCTIVE}
                 ELSE IF probe.at = "is_unrestricted" THEN {READ}
                 ELSE @,
             !.at =
                 IF probe.at = "is_read_only" /\ mode # READ_ONLY THEN "is_standard"
                 ELSE IF probe.at = "is_standard" /\ mode # STANDARD
                 THEN "is_unrestricted"
                 ELSE "allowed"]
    /\ UNCHANGED <<mode, engine_vars>>

\* evaluate, step 3: the category against the allowed categories; then steps
\* 4 to 7, which do not read the mode.
evaluate_category ==
    /\ evaluating /\ probe.at = "allowed"
    /\ probe' = IF probe.category \notin probe.allowed_categories
                THEN [probe EXCEPT !.at = "log"]
                ELSE [probe EXCEPT !.at = "returned",
                         !.decision = counted_decision(probe.service, probe.operation,
                                                       probe.parameters, probe.category)]
    /\ UNCHANGED <<mode, engine_vars>>

\* The denial by mode: logger.info(..., mode=self.config.mode.value), then the
\* reason f"... is not allowed in {self.config.mode.value} mode".
evaluate_denies_by_mode ==
    /\ evaluating /\ probe.at \in {"log", "reason"}
    /\ probe' = IF probe.at = "log"
                THEN [probe EXCEPT !.at = "reason", !.reads = @ \o <<mode>>]
                ELSE [probe EXCEPT !.at = "returned", !.reads = @ \o <<mode>>,
                         !.decision = mode_denied_decision(mode, probe.operation,
                                                           probe.category)]
    /\ UNCHANGED <<mode, engine_vars>>

\* enforce after evaluate: the decision, or the error built from it and from
\* current_mode=self.config.mode.value.
enforce_returns ==
    /\ evaluating /\ probe.at = "returned"
    /\ probe' = [probe EXCEPT
                    !.done = TRUE,
                    !.reads = IF /\ IsDecision(probe.decision)
                                 /\ ~probe.decision.allowed
                                 /\ probe.decision.category # BLOCKED
                              THEN @ \o <<mode>> ELSE @]
                 @@ [out |-> enforce_decision(probe.decision, mode, probe.service,
                                              probe.operation)]
    /\ UNCHANGED <<mode, engine_vars>>

\* Mutant of set_safety_mode: the mode is set from another thread while an
\* evaluation is in flight.
set_safety_mode_preempting(m) ==
    /\ mode' = m
    /\ UNCHANGED <<engine_vars, probe>>

\* The set_safety_mode tool: a handler of the same event loop, which runs
\* only when no other handler holds the loop.
set_safety_mode(m) ==
    /\ ~evaluating
    /\ mode' = m
    /\ UNCHANGED <<engine_vars, probe>>

InitSteps ==
    /\ mode = READ_ONLY
    /\ InitEngine
    /\ probe = NoProbe

NextSteps ==
    \/ \E m \in SafetyMode : set_safety_mode(m)
    \/ enforce_begins
    \/ evaluate_denylist
    \/ _get_allowed_categories_reads
    \/ evaluate_category
    \/ evaluate_denies_by_mode
    \/ enforce_returns

SpecSteps == InitSteps /\ [][NextSteps]_vars

(***************************************************************************)
(* execute_command on a command and on the same command under another      *)
(* category, in one mode and with one confirm flag.                        *)
(***************************************************************************)
CategoryInputs ==
    {[command |-> explicit_command(args[1], args[2], args[3], args[4]),
      category |-> category, confirm |-> confirm] :
        args \in ExplicitCalls, category \in OperationCategory, confirm \in BOOLEAN}

\* execute_command(command, confirm)
execute_command_call ==
    /\ probe.fn = "execute_command.relabelled" /\ ~probe.done
    /\ "out" \notin DOMAIN probe
    /\ probe' = probe @@ [mode |-> mode,
                          out |-> execute_command(mode, probe.command, probe.confirm,
                                                  ProviderOutcomes)]
    /\ UNCHANGED <<mode, engine_vars>>

\* execute_command(replace(command, category=category), confirm)
execute_command_relabelled_call ==
    /\ probe.fn = "execute_command.relabelled" /\ ~probe.done
    /\ "out" \in DOMAIN probe
    /\ probe' = [probe EXCEPT !.done = TRUE] @@
                 [relabelled_out |->
                     execute_command(mode, [probe.command EXCEPT !.category = probe.category],
                                     probe.confirm, ProviderOutcomes)]
    /\ UNCHANGED <<mode, engine_vars>>

InitCategory ==
    /\ mode \in SafetyMode
    /\ InitEngine
    /\ probe \in {[fn |-> "execute_command.relabelled", done |-> FALSE] @@ input :
                    input \in CategoryInputs}

NextCategory ==
    \/ execute_command_call
    \/ execute_command_relabelled_call

SpecCategory == InitCategory /\ [][NextCategory]_vars

(***************************************************************************)
(* core/environment_manager.py: EnvironmentManager.                        *)
(***************************************************************************)
\* EnvironmentManager.get_active_environment
get_active_environment == _environments[_active_environment]

\* EnvironmentManager.list_environments, as a set.
list_environments == {_environments[name] : name \in DOMAIN _environments}

\* EnvironmentManager._check_localstack_connectivity: False without endpoint,
\* else whether the socket connects.
_check_localstack_connectivity(config, reachable) ==
    config.endpoint_url \notin {None, ""} /\ reachable

\* The configurations callers add: a new production-type environment (the one
\* of the tests), a second LocalStack without endpoint, and the two default
\* names configured anew.
AddedConfigs ==
    {EnvironmentConfig("staging", PRODUCTION, None, "eu-central-1"),
     EnvironmentConfig("sandbox", LOCALSTACK, None, "us-east-1"),
     EnvironmentConfig("localstack", LOCALSTACK, "http://localhost:4567", "us-east-1"),
     EnvironmentConfig("production", PRODUCTION, None, "eu-west-1")}

\* The names callers switch to.
SwitchedNames == {"production", "localstack", "staging", "sandbox", "nonexistent"}

\* EnvironmentManager.add_environment
add_environment(config) ==
    /\ _environments' = (config.name :> config) @@ _environments
    /\ UNCHANGED <<mode, active_profile, pc, call_vars, _active_environment,
                   switch_result, probe>>

\* The assignments of a successful switch: the current environment is
\* deactivated, then the target becomes the active one.
activate(name) ==
    LET deactivated == [_environments EXCEPT ![_active_environment].is_active = FALSE]
    IN  /\ _environments' = [deactivated EXCEPT ![name].is_active = TRUE]
        /\ _active_environment' = name

\* EnvironmentManager.switch_environment; reachable is what the socket of
\* the connectivity check finds.  The list of available names is left out of
\* the not-found message.
switch_environment(name, validate, reachable) ==
    /\ IF name \notin DOMAIN _environments
       THEN /\ switch_result' = EnvironmentSwitchResult(FALSE, None,
                                    "Environment '" \o name \o "' not found", <<>>)
            /\ UNCHANGED <<_environments, _active_environment>>
       ELSE IF /\ validate /\ _environments[name].type = LOCALSTACK
               /\ ~_check_localstack_connectivity(_environments[name], reachable)
       THEN /\ switch_result' = EnvironmentSwitchResult(FALSE, None,
                                    "Cannot connect to LocalStack", <<>>)
            /\ UNCHANGED <<_environments, _active_environment>>
       ELSE /\ activate(name)
            /\ switch_result' = EnvironmentSwitchResult(TRUE, name,
                                    "Switched to '" \o name \o "' environment",
                                    IF _environments[name].type = PRODUCTION
                                    THEN <<"WARNING: Switching to PRODUCTION environment.">>
                                    ELSE <<>>)
    /\ UNCHANGED <<mode, active_profile, pc, call_vars, probe>>

NextEnvironment ==
    \/ \E config \in AddedConfigs : add_environment(config)
    \/ \E name \in SwitchedNames, validate \in BOOLEAN, reachable \in BOOLEAN :
          switch_environment(name, validate, reachable)

SpecEnvironment == Init /\ [][NextEnvironment]_vars
(***************************************************************************)
(* Properties.                                                             *)
(***************************************************************************)
\* The direct call of fn has returned.
Returned(fn) == probe.fn = fn /\ probe.done

\* The key service.operation as the caller wrote it, and lower-cased.
ProbeKey == probe.service \o "." \o probe.operation
ProbeKeyLower == lower(probe.service) \o "." \o lower(probe.operation)

\* C1: in every mode and for every parameter map, evaluate on an operation
\* whose key is in the denylist returns allowed = false with category BLOCKED.
C1_DenylistBlockedInEveryMode ==
    (Returned("evaluate") /\ ProbeKeyLower \in DENYLIST)
        => /\ IsDecision(probe.out)
           /\ probe.out.allowed = FALSE
           /\ probe.out.category = BLOCKED

C1_Witness ==
    /\ Returned("evaluate")
    /\ probe.mode = UNRESTRICTED
    /\ probe.service = "cloudtrail" /\ probe.operation = "delete_trail"
    /\ probe.parameters = ("InstanceIds" :> IdList(MaxBulk))
    /\ probe.out.allowed = FALSE /\ probe.out.category = BLOCKED

\* C3: in READ_ONLY mode evaluate allows only operations classified READ, and
\* for every non-denylisted operation classified WRITE or DESTRUCTIVE it returns
\* allowed = false with that category and suggested_mode = STANDARD, whatever
\* the parameters.
C3_ReadOnlyAllowsOnlyReads ==
    (Returned("evaluate") /\ probe.mode = READ_ONLY)
        => LET category == classify(probe.service, probe.operation)
           IN  /\ (IsDecision(probe.out) /\ probe.out.allowed) => category = READ
               /\ (ProbeKeyLower \notin DENYLIST /\ category \in {WRITE, DESTRUCTIVE})
                     => /\ IsDecision(probe.out)
                        /\ probe.out.allowed = FALSE
                        /\ probe.out.category = category
                        /\ probe.out.suggested_mode = STANDARD

C3_Witness ==
    /\ Returned("evaluate")
    /\ probe.mode = READ_ONLY
    /\ probe.service = "s3" /\ probe.operation = "delete_bucket"
    /\ probe.parameters = ("InstanceIds" :> IdList(MaxBulk))
    /\ probe.out.allowed = FALSE
    /\ probe.out.category = DESTRUCTIVE
    /\ probe.out.suggested_mode = STANDARD

\* The lengths of the bulk parameters present in a parameter map.
BulkLengths(parameters) ==
    {Len(parameters[n].v) :
        n \in {m \in {"InstanceIds", "ResourceIds", "ResourceArns", "FunctionNames"} :
                 m \in DOMAIN parameters /\ parameters[m].t = "list"}}
    \cup (IF /\ "Delete" \in DOMAIN parameters
             /\ parameters["Delete"].t = "dict"
             /\ "Objects" \in DOMAIN parameters["Delete"].v
             /\ parameters["Delete"].v["Objects"].t = "list"
          THEN {Len(parameters["Delete"].v["Objects"].v)}
          ELSE {})

\* C5: in every mode and for every category, when the largest length among
\* InstanceIds, ResourceIds, ResourceArns, Delete.Objects and FunctionNames
\* exceeds max_resources_per_operation, evaluate returns allowed = false.
C5_BlastRadiusDeniedInEveryMode ==
    (/\ Returned("evaluate")
     /\ \E n \in BulkLengths(probe.parameters) : n > max_resources_per_operation)
        => IsDecision(probe.out) /\ probe.out.allowed = FALSE

C5_Witness ==
    /\ Returned("evaluate")
    /\ probe.mode = UNRESTRICTED
    /\ probe.service = "ec2" /\ probe.operation = "terminate_instances"
    /\ probe.parameters = ("InstanceIds" :> IdList(MaxBulk))
    /\ probe.out.allowed = FALSE
    /\ probe.out.category = DESTRUCTIVE
    /\ probe.out.affected_resources = MaxBulk

\* C7: for every pair of the override table, written in any letter case,
\* classify returns exactly the overridden category.
C7_OverrideCategoryInAnyCase ==
    Returned("classify")
        => \A p \in DOMAIN OPERATION_OVERRIDES :
              (/\ probe.service \in CaseVariants(p[1])
               /\ probe.operation \in CaseVariants(p[2]))
                 => probe.out = OPERATION_OVERRIDES[p]

C7_Witness ==
    /\ Returned("classify")
    /\ probe.service = "LOGS" /\ probe.operation = "FILTER_LOG_EVENTS"
    /\ probe.out = READ

\* C8: for every service and every operation whose name, in any letter case,
\* starts with a destructive prefix, classify returns neither READ nor WRITE.
C8_DestructivePrefixNeverReadOrWrite ==
    (/\ Returned("classify")
     /\ \E i \in 1..Len(DESTRUCTIVE_PREFIXES) :
            startswith(lower(probe.operation), DESTRUCTIVE_PREFIXES[i]))
        => probe.out \notin {READ, WRITE}

C8_Witness ==
    /\ Returned("classify")
    /\ probe.service = "nosuchservice" /\ probe.operation = "Deprecate_resource"
    /\ probe.out = DESTRUCTIVE

\* Whether no override and no prefix applies to the call's operation.
ProbeUnclassified ==
    LET operation_lower == lower(probe.operation)
    IN  /\ \A prefix \in AllPrefixes : ~startswith(operation_lower, prefix)
        /\ <<lower(probe.service), operation_lower>> \notin DOMAIN OPERATION_OVERRIDES

\* C9 as stated: an operation that is in no override and matches no prefix is
\* classified WRITE, evaluate never allows it in READ_ONLY mode, and in the
\* other modes the decision has requires_confirmation = true.
C9_UnclassifiedRequiresConfirmation ==
    (Returned("evaluate") /\ ProbeUnclassified /\ IsDecision(probe.out))
        => /\ classify(probe.service, probe.operation) = WRITE
           /\ probe.mode = READ_ONLY => probe.out.allowed = FALSE
           /\ probe.mode # READ_ONLY => probe.out.requires_confirmation = TRUE

\* C9 as amended: such an operation is classified WRITE, evaluate never allows
\* it in READ_ONLY mode, and in the other modes evaluate allows it only with
\* requires_confirmation = true; it denies it when it is denylisted or over the
\* blast-radius ceiling.
C9_UnclassifiedNeverAllowedUnconfirmed ==
    (Returned("evaluate") /\ ProbeUnclassified /\ IsDecision(probe.out))
        => /\ classify(probe.service, probe.operation) = WRITE
           /\ probe.out.category \in {WRITE, BLOCKED}
           /\ probe.mode = READ_ONLY => probe.out.allowed = FALSE
           /\ probe.out.allowed = TRUE => probe.out.requires_confirmation = TRUE
           /\ (probe.mode # READ_ONLY /\ probe.out.allowed = FALSE)
                 => \/ ProbeKeyLower \in DENYLIST
                    \/ probe.out.affected_resources > max_resources_per_operation

C9_Witness ==
    /\ Returned("evaluate")
    /\ probe.mode = UNRESTRICTED
    /\ probe.service = "s3" /\ probe.operation = "run_instances"
    /\ probe.out.allowed = TRUE
    /\ probe.out.category = WRITE
    /\ probe.out.requires_confirmation = TRUE

\* C10 as stated: is_operation_blocked(service, operation) is true exactly when
\* the key service.operation is literally in the denylist.
C10_BlockedIffKeyLiterallyPresent ==
    Returned("is_operation_blocked")
        => (probe.out <=> ProbeKey \in DENYLIST)

\* Whether strings a and b are equal up to the case of their ASCII letters.
SameIgnoringCase(a, b) ==
    /\ Len(a) = Len(b)
    /\ \A i \in 1..Len(a) : CharLower(CharAt(a, i)) = CharLower(CharAt(b, i))

\* C10 as amended: is_operation_blocked(service, operation) is true exactly
\* when the key service.operation equals a denylist key up to letter case; the
\* match is on the whole key, not on a pattern or a part of it.
C10_BlockedIffKeyPresentIgnoringCase ==
    Returned("is_operation_blocked")
        => (probe.out <=> \E k \in DENYLIST : SameIgnoringCase(ProbeKey, k))

C10_Witness ==
    /\ Returned("is_operation_blocked")
    /\ probe.service = "CLOUDTRAIL" /\ probe.operation = "Delete_trail"
    /\ probe.out = TRUE


(***************************************************************************)
(* The engine's requests.                                                  *)
(***************************************************************************)
\* The request in flight has been answered, and it ran a command.
Answered == pc = "done"
HasCommand == "service" \in DOMAIN current_command
HasDecision == "out" \in DOMAIN decision

\* The request issued no provider call.
NoProviderCall == issued = <<>>

\* The request went on to the provider: it asked the session for a client.
ProviderCalled == Len(issued) >= 1 /\ issued[1].call = "get_client"

\* The request was answered "confirmation required".
ConfirmationRequiredAnswer ==
    /\ IsResult(result)
    /\ ~result.success
    /\ result.requires_confirmation
    /\ result.confirmation_message # None
    /\ NoProviderCall

\* C2: whatever the mode, the entry point and the confirm flag, a request whose
\* command is on the denylist issues no provider call (no get_client, no
\* paginator, no direct method) and is answered with success=false.
C2_DenylistedNeverReachesProvider ==
    Answered /\ HasCommand
        /\ is_operation_blocked(current_command.service, current_command.operation)
    => /\ NoProviderCall
       /\ IsResult(result)
       /\ ~result.success

\* A denylisted command was submitted with confirm=true while the mode was
\* UNRESTRICTED, and the request was refused by the safety check.
C2_Witness ==
    /\ Answered /\ HasCommand /\ HasDecision
    /\ is_operation_blocked(current_command.service, current_command.operation)
    /\ req.confirm
    /\ decision.mode = UNRESTRICTED
    /\ decision.out.category = BLOCKED
    /\ IsResult(result) /\ ~result.success

\* The safety check of the request ran in STANDARD mode and put the command in
\* WRITE or DESTRUCTIVE.
StandardWriteOrDestructive ==
    /\ Answered /\ HasCommand /\ HasDecision
    /\ decision.mode = STANDARD
    /\ decision.out.category \in {WRITE, DESTRUCTIVE}

\* Allowed with confirmation: without confirm the answer is "confirmation
\* required" and no provider call; with confirm the request goes on to the
\* provider.
ConfirmThenExecute ==
    /\ decision.out.allowed
    /\ decision.out.requires_confirmation
    /\ ~req.confirm => ConfirmationRequiredAnswer
    /\ req.confirm => ProviderCalled

\* C4 as stated: in STANDARD mode every WRITE or DESTRUCTIVE operation is
\* allowed with requires_confirmation=true; confirm=false is answered
\* "confirmation required" without a provider call and confirm=true executes.
C4_StandardWritesConfirmThenExecute ==
    StandardWriteOrDestructive => ConfirmThenExecute

\* C4, amended: the same for the WRITE and DESTRUCTIVE operations whose
\* affected-resource count is within max_resources_per_operation.
C4_StandardWritesWithinCeilingConfirmThenExecute ==
    /\ StandardWriteOrDestructive
    /\ _count_affected_resources(current_command.parameters) <= max_resources_per_operation
    => ConfirmThenExecute

\* A DESTRUCTIVE command was answered "confirmation required", submitted again
\* with confirm=true in STANDARD mode, and executed.
C4_Witness ==
    /\ StandardWriteOrDestructive
    /\ decision.out.category = DESTRUCTIVE
    /\ req.resubmitted /\ req.confirm
    /\ Len(issued) = 2
    /\ issued[2].call = "method"
    /\ IsResult(result) /\ result.success

\* C6: the command execute_natural_language runs for a query the classifier
\* accepts is a READ command, by its category field and by classify, whatever
\* the intent of the query; a query it does not accept issues no provider
\* call.  So no provider call of execute_natural_language is for a WRITE or
\* DESTRUCTIVE operation.
C6_NaturalLanguageIsReadOnly ==
    Answered /\ req.via = "execute_natural_language"
    => IF HasCommand
       THEN /\ current_command.category = READ
            /\ classify(current_command.service, current_command.operation) = READ
       ELSE NoProviderCall

\* A query with the delete intent was accepted, ran list_buckets and reached
\* the provider.
C6_Witness ==
    /\ Answered /\ req.via = "execute_natural_language" /\ HasCommand
    /\ req.query = "delete s3 buckets"
    /\ current_command.operation = "list_buckets"
    /\ ProviderCalled
    /\ IsResult(result) /\ result.success

(***************************************************************************)
(* enforce against evaluate.                                               *)
(***************************************************************************)
\* What evaluate returns for the arguments and the mode of the recorded call.
ProbeEvaluated ==
    evaluate(probe.mode, probe.service, probe.operation, probe.parameters)

IsRaised(out, exception) == "raised" \in DOMAIN out /\ out.raised = exception

\* enforce returned exactly the allowed decision of evaluate, raised
\* OperationBlockedError exactly for a BLOCKED denial, and SafetyError with
\* the decision's category for every other denial.
EnforceFollows(d) ==
    /\ IsDecision(probe.out) <=> (IsDecision(d) /\ d.allowed)
    /\ IsDecision(probe.out) => probe.out = d
    /\ IsRaised(probe.out, "OperationBlockedError")
           <=> (IsDecision(d) /\ ~d.allowed /\ d.category = BLOCKED)
    /\ IsRaised(probe.out, "SafetyError")
           <=> (IsDecision(d) /\ ~d.allowed /\ d.category # BLOCKED)
    /\ IsRaised(probe.out, "SafetyError")
           => /\ "category" \in DOMAIN probe.out.details
              /\ probe.out.details.category = d.category

\* C11 as stated: enforce returns d exactly when evaluate allows with d, raises
\* OperationBlockedError exactly for a BLOCKED denial, and for every other
\* denial raises a SafetyError that carries category and suggested mode.
C11_EnforceRaisesWithSuggestedMode ==
    Returned("enforce")
    => /\ EnforceFollows(ProbeEvaluated)
       /\ IsRaised(probe.out, "SafetyError")
              => "suggested_mode" \in DOMAIN probe.out.details

\* C11, amended: the SafetyError carries the suggested mode exactly when the
\* denial has one, which is the case for the denials by mode and not for the
\* denials by affected-resource count.
C11_EnforceRaisesTypedErrors ==
    Returned("enforce")
    => /\ EnforceFollows(ProbeEvaluated)
       /\ IsRaised(probe.out, "SafetyError")
              => IF ProbeEvaluated.suggested_mode # None
                 THEN /\ "suggested_mode" \in DOMAIN probe.out.details
                      /\ probe.out.details.suggested_mode = ProbeEvaluated.suggested_mode
                 ELSE "suggested_mode" \notin DOMAIN probe.out.details

\* enforce raised SafetyError for a destructive operation in READ_ONLY mode,
\* with the suggested mode in its details.
C11_Witness ==
    /\ Returned("enforce")
    /\ probe.mode = READ_ONLY
    /\ IsRaised(probe.out, "SafetyError")
    /\ probe.out.details.category = DESTRUCTIVE
    /\ probe.out.details.suggested_mode = STANDARD

(***************************************************************************)
(* The ceilings of the pagination handler.                                 *)
(***************************************************************************)
\* The items of the first k pages of the recorded call, in order.
RECURSIVE Accumulated(_)
Accumulated(k) ==
    IF k = 0 THEN <<>>
    ELSE Accumulated(k - 1) \o _extract_results(probe.client.pages[k], probe.result_key)

\* The pages the handler may read: those the paginator yields, up to max_pages.
PagesRead ==
    IF Len(probe.client.pages) < probe.self.max_pages THEN Len(probe.client.pages)
    ELSE probe.self.max_pages

\* The accumulated item count reaches max_items on a page the handler reads.
CeilingReached ==
    \E k \in 1..PagesRead : Len(Accumulated(k)) >= probe.self.max_items

\* The handler returned at most max_items items, and exactly the first
\* max_items with truncated=true if the count reached max_items.
WithinItemCeiling ==
    /\ "results" \in DOMAIN probe.out
    /\ Len(probe.out.results) <= probe.self.max_items
    /\ CeilingReached
          => /\ probe.out.results = take(Accumulated(PagesRead), probe.self.max_items)
             /\ probe.out.truncated

PaginatorRaises ==
    /\ probe.client.pages_raise
    /\ ~CeilingReached
    /\ Len(probe.client.pages) <= probe.self.max_pages

C13_ResultFieldsAreExclusive ==
    Answered /\ IsResult(result)
    => /\ result.success => result.error = None /\ result.error_code = None
       /\ ~result.success => result.data = None

\* A provider error was answered: error and error_code set, no data.
C13_Witness ==
    /\ Answered /\ IsResult(result)
    /\ ProviderCalled
    /\ ~result.success
    /\ result.error # None /\ result.error_code # None
    /\ result.data = None

\* The validation of the command in flight.
CommandValidation ==
    validate_operation(current_command.service, current_command.operation,
                       current_command.parameters)

\* C14: whenever validation of the command returns valid=false, execute_command
\* returns success=false with the validation errors joined, without a safety
\* evaluation, a client or a provider call, in every mode and for either value
\* of confirm.
C14_InvalidCommandFailsFast ==
    Answered /\ HasCommand /\ ~CommandValidation.valid
    => /\ IsResult(result) /\ ~result.success
       /\ result.error = join("; ", CommandValidation.errors)
       /\ ~HasDecision
       /\ NoProviderCall
       /\ recorded = NotRecorded

\* A destructive command that misses a required parameter, submitted in
\* UNRESTRICTED mode with confirm=true, was answered with the validation error.
C14_Witness ==
    /\ Answered /\ HasCommand /\ ~CommandValidation.valid
    /\ mode = UNRESTRICTED /\ req.confirm
    /\ classify(current_command.service, current_command.operation) = DESTRUCTIVE
    /\ IsResult(result) /\ ~result.success
    /\ NoProviderCall

\* C15 as stated: if add_resources_from_response or record_query raises after
\* the provider call has succeeded, the call still returns success=true with the
\* provider's data.
C15_ContextFailureDoesNotFailTheRequest ==
    Answered /\ recorded = "raised"
    => IsResult(result) /\ result.success /\ result.data # None

(***************************************************************************)
(* Error normalization.                                                    *)
(***************************************************************************)
\* The code and the message of the error handed to handle_client_error.
ProbeCode == get(probe.error.response.Error, "Code", "Unknown")
ProbeMessage == get(probe.error.response.Error, "Message", probe.error.text)
ProbeEntry == AWS_ERROR_MAPPINGS[ProbeCode]

\* The retry delay of an ExecutionError, 0 if it has none.
RetryDelay(execution_error) == get(execution_error.details, "retry_after_seconds", 0)

\* C16: for a code in the error table handle_client_error returns an
\* ExecutionError whose recoverable flag and retry delay are the table entry's;
\* for any other code it returns recoverable=false with the raw provider
\* message; for an entry of category rate_limit or service the error is
\* recoverable with a retry delay, for one of category validation or resource it
\* is not recoverable.
C16_ErrorsFollowTheTable ==
    Returned("handle_client_error")
    => /\ probe.out.details.aws_error_code = ProbeCode
       /\ IF ProbeCode \in DOMAIN AWS_ERROR_MAPPINGS
          THEN /\ probe.out.details.recoverable = ProbeEntry.recoverable
               /\ RetryDelay(probe.out) = ProbeEntry.retry_after
               /\ ProbeEntry.category \in {"rate_limit", "service"}
                     => probe.out.details.recoverable /\ RetryDelay(probe.out) > 0
               /\ ProbeEntry.category \in {"validation", "resource"}
                     => ~probe.out.details.recoverable
          ELSE /\ ~probe.out.details.recoverable
               /\ RetryDelay(probe.out) = 0
               /\ probe.out.message = ProbeMessage

\* A throttled request was normalized: recoverable, retry after 5 seconds.
C16_Witness ==
    /\ Returned("handle_client_error")
    /\ ProbeCode = "ThrottlingException"
    /\ probe.out.details.recoverable
    /\ RetryDelay(probe.out) = 5

(***************************************************************************)
(* Validation against the service models.                                  *)
(***************************************************************************)
\* The call of validate_operation named a service and an operation of it.
ProbeOperationKnown ==
    service_exists(probe.service) /\ operation_exists(probe.service, probe.operation)

\* The required parameters the call does not provide.
ProbeMissing ==
    {p \in Range(get_required_parameters(probe.service, probe.operation)) :
        p \notin DOMAIN probe.parameters}

ProbeMembers == shape_members(get_input_shape(probe.service, probe.operation))

\* The provided parameters the operation's input shape does not have.
ProbeUnknown ==
    IF get_input_shape(probe.service, probe.operation) = NoShape THEN {}
    ELSE {p \in DOMAIN probe.parameters : p \notin DOMAIN ProbeMembers}

\* The provided parameters whose value is not of the type of the shape the
\* member refers to.
ProbeMismatched ==
    {p \in DOMAIN probe.parameters \cap DOMAIN ProbeMembers :
        ~_type_matches(probe.parameters[p], shapes[ProbeMembers[p].shape].type)}

\* The message lists the parameter among its comma-separated names, or quotes
\* it.
EndsWith(text, suffix) ==
    /\ Len(text) >= Len(suffix)
    /\ SubSeq(text, Len(text) - Len(suffix) + 1, Len(text)) = suffix

Mentions(message, parameter) ==
    \/ \E lead \in {": ", ", "} :
          \/ find(message, lead \o parameter \o ",") > 0
          \/ EndsWith(message, lead \o parameter)
    \/ find(message, "'" \o parameter \o "'") > 0

\* Some message of the sequence names the parameter.
Names(messages, parameter) ==
    \E i \in 1..Len(messages) : Mentions(messages[i], parameter)

\* valid=false only for an unknown service, an unknown operation or a missing
\* required parameter, the missing ones named in one error.
InvalidOnlyForUnknownOrMissing ==
    /\ ~probe.out.valid <=> (~ProbeOperationKnown \/ ProbeMissing # {})
    /\ ProbeOperationKnown /\ ProbeMissing # {}
          => /\ Len(probe.out.errors) = 1
             /\ \A p \in ProbeMissing : Names(probe.out.errors, p)

\* Unknown provided parameters are warned about and are no error.
UnknownParametersWarned ==
    ProbeOperationKnown
    => \A p \in ProbeUnknown :
          Names(probe.out.warnings, p) /\ ~Names(probe.out.errors, p)

\* C17: validate_operation returns valid=false only when the service is
\* unknown, the operation is unknown for the service, or a required parameter is
\* missing (one aggregated error naming every missing parameter); unknown
\* provided parameters and type mismatches of provided parameters produce
\* warnings only and leave valid=true.
C17_OnlyMissingParametersInvalidate ==
    Returned("validate_operation")
    => /\ InvalidOnlyForUnknownOrMissing
       /\ UnknownParametersWarned
       /\ ProbeOperationKnown
             => \A p \in ProbeMismatched :
                   Names(probe.out.warnings, p) /\ ~Names(probe.out.errors, p)

(***************************************************************************)
(* The failures of the intent classifier.                                  *)
(***************************************************************************)
\* The failure a query ends in: "empty", "intent", "service", or None for a
\* query that parses.
FailureOf(text) ==
    IF strip(text) = "" THEN "empty"
    ELSE IF _classify_intent(strip(text)) = None THEN "intent"
    ELSE IF _identify_service(strip(text)) = 0 THEN "service"
    ELSE None

\* A query of each failure.
FailingQuery == [empty |-> "", intent |-> "hello", service |-> "list things"]

\* C18: classify does not raise; for empty input, for text with no intent match
\* and for text with no service match it returns success=false with no
\* command, an error message that differs from the other two failures' and a
\* non-empty list of example phrasings.
C18_FailuresCarryExamples ==
    Returned("IntentClassifier.classify")
    => /\ "success" \in DOMAIN probe.out
       /\ FailureOf(probe.text) # None
             => /\ ~probe.out.success
                /\ "command" \notin DOMAIN probe.out
                /\ \A other \in DOMAIN FailingQuery \ {FailureOf(probe.text)} :
                      probe.out.error
                          # IntentClassifier_classify(FailingQuery[other]).error
                /\ Len(probe.out.suggestions) > 0

(***************************************************************************)
(* Double confirmation and retries.                                        *)
(***************************************************************************)
\* The positions of issued at which the provider operation was invoked,
\* through the paginator or directly.
Invocations == {i \in 1..Len(issued) : issued[i].call \in {"paginate", "method"}}

\* C19: an operation of the double-confirm set is not executed on a call that
\* carries only the single confirm flag, in any mode, UNRESTRICTED included.
C19_DoubleConfirmNotExecutedOnSingleConfirm ==
    /\ Answered /\ HasCommand
    /\ requires_double_confirmation(current_command.service, current_command.operation)
    => Invocations = {}

\* C20 as stated: once an invocation of the provider operation has failed, the
\* engine does not invoke it again, through the paginator or directly, and the
\* call ends in the failed result.
C20_NoInvocationAfterAFailure ==
    Answered
    => \A i \in Invocations :
          issued[i].raised
             => /\ \A j \in Invocations : j <= i
                /\ IsResult(result) /\ ~result.success

\* C20, amended: the one second invocation is the fallback of the pagination
\* handler, a single direct call after the paginator failed.  A direct call
\* that failed is never followed by another invocation and ends the call in the
\* failed result; a call makes at most one paginator run and one direct call.
C20_NoInvocationAfterAFailedDirectCall ==
    Answered
    => /\ \A i \in Invocations :
             issued[i].raised
                => IF issued[i].call = "method"
                   THEN /\ \A j \in Invocations : j <= i
                        /\ IsResult(result) /\ ~result.success
                   ELSE \A j \in Invocations : j > i => issued[j].call = "method"
       /\ Cardinality(Invocations) <= 2
       /\ Cardinality({i \in Invocations : issued[i].call = "paginate"}) <= 1
       /\ Cardinality({i \in Invocations : issued[i].call = "method"}) <= 1

\* The paginator failed, the direct call of the fallback failed too, and the
\* call ended in the failed result.
C20_Witness ==
    /\ Answered
    /\ Len(issued) = 3
    /\ issued[2].call = "paginate" /\ issued[2].raised
    /\ issued[3].call = "method" /\ issued[3].raised
    /\ IsResult(result) /\ ~result.success

(***************************************************************************)
(* The mode an evaluation reads.                                           *)
(***************************************************************************)
\* An enforce call that was followed statement by statement has returned.
SteppedReturned == probe.fn = "enforce.steps" /\ probe.done

C22_DenialsCarryAReason ==
    /\ Returned("evaluate") /\ IsDecision(probe.out) /\ ~probe.out.allowed
          => probe.out.reason \notin {"", None}
    /\ Returned("get_block_reason")
          => IF ProbeKeyLower \in DENYLIST THEN probe.out \notin {"", None}
             ELSE probe.out = None

\* A denylisted operation written in capitals was evaluated: BLOCKED, with the
\* reason get_block_reason gives for its key.
C22_Witness ==
    /\ Returned("evaluate") /\ IsDecision(probe.out)
    /\ ProbeKeyLower \in DENYLIST /\ ProbeKey # ProbeKeyLower
    /\ probe.out.category = BLOCKED
    /\ probe.out.reason = get_block_reason(probe.service, probe.operation)
    /\ probe.out.reason # ""

\* C23: every decision evaluate returns, on every path (denylist denial, mode
\* denial, blast-radius denial, allowed), has an affected-resource count of at
\* least 1.
C23_AffectedResourcesAtLeastOne ==
    Returned("evaluate") /\ IsDecision(probe.out) => probe.out.affected_resources >= 1

\* The path evaluate took for the probed call: the denylist (step 1), the mode
\* (step 3) or the count (steps 4 and 5).
DeniedByDenylist == is_operation_blocked(probe.service, probe.operation)
DeniedByMode ==
    /\ ~DeniedByDenylist
    /\ classify(probe.service, probe.operation) \notin _get_allowed_categories(probe.mode)

\* C23 (amended): a decision evaluate returns after the count (blast-radius
\* denial, allowed) has an affected-resource count of at least 1; a denylist
\* denial and a mode denial are returned before the count and carry the
\* default count 0.
C23_CountedDecisionsAtLeastOne ==
    Returned("evaluate") /\ IsDecision(probe.out)
       => IF DeniedByDenylist \/ DeniedByMode
          THEN ~probe.out.allowed /\ probe.out.affected_resources = 0
          ELSE probe.out.affected_resources >= 1

\* An allowed decision for a call with no bulk parameter: the count is 1.
C23_Witness ==
    /\ Returned("evaluate") /\ IsDecision(probe.out)
    /\ probe.out.allowed
    /\ probe.parameters = EmptyParameters
    /\ probe.out.affected_resources = 1

(***************************************************************************)
(* The fallback of the pagination handler.                                 *)
(***************************************************************************)
\* The field of the direct call's answer the items come from: the result-key
\* field if a key is given and present, else the first list-valued field.
DirectFields ==
    IF probe.result_key # None
       /\ \E i \in 1..Len(probe.client.single) : probe.client.single[i][1] = probe.result_key
    THEN {i \in 1..Len(probe.client.single) : probe.client.single[i][1] = probe.result_key}
    ELSE {i \in 1..Len(probe.client.single) : probe.client.single[i][2].t = "list"}
DirectField ==
    probe.client.single[CHOOSE i \in DirectFields : \A j \in DirectFields : i <= j][2]
DirectItems == IF DirectField.t = "list" THEN DirectField.v ELSE <<DirectField>>

NormalizedError == handle_client_error(probe.error, probe.service, probe.operation)

\* A view of the result (its fields, or the dictionary sent to the caller)
\* carries the error's recoverable flag and, where the error has one, its
\* retry-after hint.
Surfaces(view) ==
    /\ "recoverable" \in DOMAIN view
    /\ view["recoverable"] = NormalizedError.details["recoverable"]
    /\ "retry_after_seconds" \in DOMAIN NormalizedError.details
          => /\ "retry_after_seconds" \in DOMAIN view
             /\ view["retry_after_seconds"] = NormalizedError.details["retry_after_seconds"]

\* C25: when a provider call fails, the result the engine returns surfaces the
\* normalized error's recoverable flag and retry-after hint.
C25_FailureSurfacesRetryHints ==
    Returned("execute_command") => Surfaces(probe.out) \/ Surfaces(to_dict(probe.out))


(***************************************************************************)
(* The order of the checks of evaluate.                                    *)
(***************************************************************************)
\* The blast-radius check would deny the probed call: its parameters name
\* more resources than the ceiling.
OverCeiling ==
    /\ ~count_raises(probe.parameters)
    /\ _count_affected_resources(probe.parameters) > max_resources_per_operation

\* The three denials, told apart by what the decision holds.
IsDenylistDenial(d) ==
    IsDecision(d) /\ ~d.allowed /\ d.category = BLOCKED /\ d.suggested_mode = None
IsModeDenial(d) ==
    /\ IsDecision(d) /\ ~d.allowed /\ d.category # BLOCKED
    /\ contains(d.reason, "is not allowed in " \o probe.mode \o " mode")
    /\ d.suggested_mode \in SafetyMode
IsBlastRadiusDenial(d) ==
    /\ IsDecision(d) /\ ~d.allowed /\ d.suggested_mode = None
    /\ startswith(d.reason, "Operation would affect ")

\* C26: when several checks of evaluate would deny a request, the decision is
\* that of the first in the order denylist, mode, blast radius: a denylisted
\* operation is BLOCKED even when the mode would deny it or its count exceeds
\* the ceiling, and a mode-disallowed operation over the ceiling gets the mode
\* denial with suggested_mode.
C26_DenylistThenModeThenBlastRadius ==
    Returned("evaluate")
    => IF DeniedByDenylist THEN IsDenylistDenial(probe.out)
       ELSE IF DeniedByMode THEN IsModeDenial(probe.out)
       ELSE OverCeiling => IsBlastRadiusDenial(probe.out)

\* A destructive operation on more instances than the ceiling, in READ_ONLY
\* mode: the mode denial.
C26_Witness ==
    /\ Returned("evaluate")
    /\ probe.mode = READ_ONLY /\ OverCeiling /\ ~DeniedByDenylist
    /\ IsModeDenial(probe.out)
    /\ probe.out.category = DESTRUCTIVE
    /\ probe.out.suggested_mode # None

\* A denylisted operation that the mode would deny and whose count exceeds the
\* ceiling was evaluated.
C26_DenylistWins ==
    /\ Returned("evaluate")
    /\ DeniedByDenylist /\ OverCeiling /\ probe.mode = READ_ONLY
    /\ classify(probe.service, probe.operation) # READ

(***************************************************************************)
(* The truncated flag.                                                     *)
(***************************************************************************)
\* The paginator yielded a page beyond the page ceiling.
PageCeilingReached == Len(probe.client.pages) > probe.self.max_pages

\* Every item of every page the paginator produced.
EveryItem == Accumulated(Len(probe.client.pages))

\* truncated=true only after a ceiling was reached during pagination, and
\* never from a direct call without paginator.
TruncatedOnlyAtACeiling ==
    /\ probe.out.truncated
          => probe.client.paginator /\ (PageCeilingReached \/ CeilingReached)
    /\ ~probe.client.paginator => ~probe.out.truncated

\* C27 as stated: truncated=true only when the page ceiling or the item
\* ceiling was reached during pagination; whenever truncated=false the list
\* holds every item of every page the provider produced; a non-paginated
\* direct call always has truncated=false.
C27_TruncatedIsAccurate ==
    Returned("execute_paginated") /\ "results" \in DOMAIN probe.out
    => /\ TruncatedOnlyAtACeiling
       /\ probe.client.paginator /\ ~probe.out.truncated
             => probe.out.results = EveryItem

\* C27, amended: the same, except that truncated=false after the paginator
\* raised means the list is the answer of the one direct call of the fallback,
\* not the items of the pages.
C27_TruncatedIsAccurateUnlessFallback ==
    Returned("execute_paginated") /\ "results" \in DOMAIN probe.out
    => /\ TruncatedOnlyAtACeiling
       /\ probe.client.paginator /\ ~probe.out.truncated
             => IF PaginatorRaises THEN probe.out.results = DirectItems
                ELSE probe.out.results = EveryItem

\* Three pages with five items read to the end under ceilings not reached:
\* truncated=false and all five items.
C27_Witness ==
    /\ Returned("execute_paginated") /\ "results" \in DOMAIN probe.out
    /\ probe.client.paginator /\ ~probe.client.pages_raise
    /\ Len(probe.client.pages) = 3 /\ probe.result_key = "Contents"
    /\ ~PageCeilingReached /\ ~CeilingReached
    /\ ~probe.out.truncated
    /\ probe.out.results = Items(1, 5)

(***************************************************************************)
(* The execution gate.                                                     *)
(***************************************************************************)
\* The command of the request is classified WRITE or DESTRUCTIVE.
WriteOrDestructiveCommand ==
    /\ HasCommand
    /\ classify(current_command.service, current_command.operation) \in {WRITE, DESTRUCTIVE}

\* C28: after any sequence of set_mode and execute calls, a provider call for
\* an operation classified WRITE or DESTRUCTIVE is issued only by a call that
\* carried confirm=true and whose own evaluation read STANDARD or
\* UNRESTRICTED; confirm=true never turns a denial into an execution; and
\* UNRESTRICTED mode keeps the confirmation requirement.
C28_ExecutionGate ==
    /\ WriteOrDestructiveCommand /\ ~NoProviderCall
          => /\ req.confirm
             /\ HasDecision /\ IsDecision(decision.out)
             /\ decision.mode \in {STANDARD, UNRESTRICTED}
    /\ Answered /\ HasDecision /\ IsDecision(decision.out) /\ ~decision.out.allowed
          => NoProviderCall /\ IsResult(result) /\ ~result.success
    /\ Answered /\ WriteOrDestructiveCommand /\ HasDecision /\ IsDecision(decision.out)
       /\ decision.mode = UNRESTRICTED /\ decision.out.allowed /\ ~req.confirm
          => ConfirmationRequiredAnswer

\* A destructive command was refused in READ_ONLY mode with confirm=true, and
\* after set_mode submitted again in UNRESTRICTED mode with confirm=true and
\* executed.
C28_Witness ==
    /\ Answered /\ WriteOrDestructiveCommand /\ HasDecision
    /\ decision.out.category = DESTRUCTIVE
    /\ decision.mode = UNRESTRICTED
    /\ req.confirm
    /\ ProviderCalled /\ issued[Len(issued)].call = "method"
    /\ IsResult(result) /\ result.success

\* A denial met confirm=true: a destructive command over the ceiling in
\* UNRESTRICTED mode.
C28_DenialWithConfirm ==
    /\ Answered /\ WriteOrDestructiveCommand /\ HasDecision /\ IsDecision(decision.out)
    /\ req.confirm /\ decision.mode = UNRESTRICTED /\ ~decision.out.allowed

(***************************************************************************)
(* The category a command carries.                                         *)
(***************************************************************************)
\* The safety outcome of a return of execute_command: the decision, the
\* provider calls, and whether the answer is a success, a refusal or a request
\* for confirmation.
SafetyOutcome(r) ==
    [decision |-> r.decision, issued |-> r.issued,
     answer |-> IF IsResult(r.result)
                THEN [success |-> r.result.success,
                      requires_confirmation |-> r.result.requires_confirmation,
                      error |-> r.result.error]
                ELSE r.result]

\* C29: the safety outcome of execute_command does not depend on the category
\* the command carries: run in the same mode with the same confirm flag, a
\* command and the same command under another category get the same decision,
\* the same answer and the same provider calls.
C29_OutcomeIndependentOfCategoryField ==
    Returned("execute_command.relabelled")
    => {SafetyOutcome(r) : r \in probe.out}
          = {SafetyOutcome(r) : r \in probe.relabelled_out}

\* A destructive operation was run with confirm=true in STANDARD mode under
\* its own category and labelled READ: evaluated as DESTRUCTIVE and executed
\* both times.
C29_Witness ==
    /\ Returned("execute_command.relabelled")
    /\ probe.command.category = DESTRUCTIVE /\ probe.category = READ
    /\ probe.confirm /\ probe.mode = STANDARD
    /\ \E r \in probe.relabelled_out :
          /\ IsDecision(r.decision) /\ r.decision.category = DESTRUCTIVE
          /\ r.decision.requires_confirmation
          /\ r.issued # <<>>
          /\ IsResult(r.result) /\ r.result.success /\ r.result.category = READ

(***************************************************************************)
(* The active environment.                                                 *)
(***************************************************************************)
\* The configured environments whose is_active flag is set.
ActiveEnvironments == {name \in DOMAIN _environments : _environments[name].is_active}

\* Exactly one configured environment is flagged active, and it is the one
\* get_active_environment returns.
ExactlyOneActive ==
    /\ Cardinality(ActiveEnvironments) = 1
    /\ get_active_environment.is_active
    /\ get_active_environment = _environments[CHOOSE name \in ActiveEnvironments : TRUE]

\* C30: after any sequence of switch_environment and add_environment calls
\* exactly one configured environment has is_active=true and it is the one
\* get_active_environment returns; a failed switch leaves the active
\* environment and every is_active flag unchanged.
C30_ExactlyOneActiveEnvironment ==
    [][/\ ExactlyOneActive'
       /\ switch_result' # switch_result /\ ~switch_result'.success
             => UNCHANGED <<_environments, _active_environment>>]_vars

\* The half of C30 about switch_environment alone: a failed switch changes
\* nothing, and a successful one leaves exactly the target flagged among the
\* environments it touched.
FailedSwitchChangesNothing ==
    [][switch_result' # switch_result /\ ~switch_result'.success
          => UNCHANGED <<_environments, _active_environment>>]_vars
SwitchedIsActive ==
    [][switch_result' # switch_result /\ switch_result'.success
          => /\ _active_environment' = switch_result'.environment
             /\ get_active_environment'.is_active]_vars
====
